---- MODULE Spec2Model ----
(***************************************************************************)
(* Web Scraper Pro: the recursive crawl of webscraper/scraper.py           *)
(* (WebScraper.descargar_pagina, procesar_pagina, descargar_recurso), the  *)
(* single-page scraper of app.py (WebScraper.descargar_pagina over         *)
(* ResourceManager.get_resource) and the functions of webscraper/utils.py. *)
(*                                                                         *)
(* A URL string is written as the triple urlparse splits it into:          *)
(* [scheme, netloc, path].  A path is the sequence of its tokens: the      *)
(* separator "/", the nine characters of the sanitizing class, names and   *)
(* extensions (".jpg").  Two strings are equal iff their triples are.      *)
(***************************************************************************)
EXTENDS Integers, Sequences, FiniteSets, TLC

\* ------------------------------------------------------------------ bounds
MaxProfundidad == 2
MaxLlamadas == 2
MaxReloj == 3600
PasoReloj == 1800
MaxNombre == 3

\* ------------------------------------------------------- program constants
MAX_WORKERS == 5
CACHE_EXPIRY == 3600

None == <<"None">>

\* ---------------------------------------------------------------- the URLs
Url(s, n, p) == [scheme |-> s, netloc |-> n, path |-> p]

Dominio == "ejemplo.com"

UrlRaiz == Url("https", Dominio, <<>>)
UrlA == Url("https", Dominio, <<"/", "a">>)
UrlB == Url("https", Dominio, <<"/", "b">>)
UrlC == Url("https", Dominio, <<"/", "c">>)
UrlPage2 == Url("https", Dominio, <<"/", "page2">>)
UrlPage3 == Url("https", Dominio, <<"/", "page3">>)
UrlRota == Url("https", Dominio, <<"/", "rota">>)
UrlQ == Url("https", Dominio, <<"/", "q">>)
UrlInvalida == Url("", "", <<"url_invalida">>)
UrlImagen == Url("https", Dominio, <<"/", "imagen", ".jpg">>)
Url404 == Url("https", Dominio, <<"/", "404", ".jpg">>)
UrlExterna == Url("http", "otro.com", <<"/", "x">>)
UrlLogoExterno == Url("http", "otro.com", <<"/", "logo", ".png">>)
UrlMailto == Url("mailto", "", <<"info@ejemplo.com">>)
UrlE == Url("https", Dominio, <<"/", "e">>)
UrlCss == Url("https", Dominio, <<"/", "css", "/", "style", ".css">>)
UrlGrande == Url("https", Dominio, <<"/", "archivo_grande", ".zip">>)
UrlPhp == Url("https", Dominio, <<"/", "script", ".php">>)
UrlF == Url("https", Dominio, <<"/", "f">>)
UrlG == Url("https", Dominio, <<"/", "g">>)
UrlH == Url("https", Dominio, <<"/", "h">>)
UrlM == Url("https", Dominio, <<"/", "m">>)
UrlVideo == Url("https", Dominio, <<"/", "video", ".mp4">>)
UrlIcono == Url("https", Dominio, <<"/", "favicon", ".ico">>)
UrlJs == Url("https", Dominio, <<"/", "app", ".js">>)
UrlP == Url("https", Dominio, <<"/", "p">>)
EnlacesDeP == [n \in 1..(MAX_WORKERS + 1) |-> Url("https", Dominio, <<"/", "p" \o ToString(n)>>)]

\* references as they are written in the markup
RefImagen == Url("", "", <<"imagen", ".jpg">>)
Ref404 == Url("", "", <<"404", ".jpg">>)
RefPage2 == Url("", "", <<"/", "page2">>)
RefPage3 == Url("", "", <<"/", "page3">>)
RefB == Url("", "", <<"/", "b">>)
RefCss == Url("", "", <<"css", "/", "style", ".css">>)
RefJs == Url("", "", <<"app", ".js">>)

Semillas == {UrlRaiz, UrlA, UrlB, UrlC, UrlE, UrlM, UrlQ, UrlRota, UrlInvalida}

\* ------------------------------------------------------------- the network
\* A response: its status, the size of its body and, of its markup, the src of
\* the img elements, the href of the link elements with rel="stylesheet", the
\* src of the script elements, the href of the a elements, the src of the
\* video elements and the href of the link elements of another rel.
Pagina(st, imgs, css, js, as, n) ==
    [status |-> st, img |-> imgs, link |-> css, script |-> js, a |-> as, len |-> n,
     video |-> <<>>, otros |-> <<>>]

ConVideoYOtros(pagina, videos, enlaces) == [pagina EXCEPT !.video = videos, !.otros = enlaces]

NoSoup == Pagina(0, <<>>, <<>>, <<>>, <<>>, 0)

\* what the servers answer to a GET of an absolute URL
Web(u) ==
    CASE u = UrlRaiz -> Pagina(200, <<RefImagen>>, <<>>, <<>>, <<>>, 1)
      [] u = UrlA -> Pagina(200, <<>>, <<>>, <<>>, <<RefPage2, UrlPage2>>, 1)
      [] u = UrlB -> Pagina(200, <<>>, <<>>, <<>>, <<RefPage2, RefPage3, UrlExterna, UrlMailto>>, 1)
      [] u = UrlC -> Pagina(200, <<Ref404, UrlLogoExterno, RefImagen>>, <<>>, <<>>, <<>>, 1)
      [] u = UrlPage2 -> Pagina(200, <<RefImagen>>, <<>>, <<>>, <<RefPage3>>, 1)
      [] u = UrlPage3 -> Pagina(200, <<RefImagen>>, <<>>, <<>>, <<RefB>>, 1)
      [] u = UrlE -> Pagina(200, <<>>, <<RefCss>>, <<RefJs>>, <<>>, 1)
      [] u = UrlCss -> Pagina(200, <<>>, <<>>, <<>>, <<>>, 3)
      [] u = UrlGrande -> Pagina(200, <<>>, <<>>, <<>>, <<>>, 100 * 1024 * 1024)
      [] u = UrlPhp -> Pagina(200, <<>>, <<>>, <<>>, <<>>, 8)
      [] u = UrlF -> Pagina(200, <<UrlImagen>>, <<UrlCss>>, <<>>, <<>>, 1)
      [] u = UrlG -> Pagina(200, <<Url404, UrlLogoExterno, RefImagen>>, <<>>, <<UrlJs>>, <<>>, 1)
      [] u = UrlH -> Pagina(200, <<UrlImagen, UrlImagen>>, <<>>, <<>>, <<>>, 1)
      [] u = UrlM -> ConVideoYOtros(Pagina(200, <<>>, <<>>, <<>>, <<>>, 1),
                                    <<UrlVideo>>, <<UrlIcono>>)
      [] u = UrlVideo -> Pagina(200, <<>>, <<>>, <<>>, <<>>, 4)
      [] u = UrlIcono -> Pagina(200, <<>>, <<>>, <<>>, <<>>, 1)
      [] u = UrlJs -> Pagina(200, <<>>, <<>>, <<>>, <<>>, 5)
      [] u = UrlP -> Pagina(200, <<Ref404, RefImagen>>, <<>>, <<>>, EnlacesDeP, 1)
      [] u = UrlQ -> Pagina(200, <<>>, <<>>, <<>>, <<UrlRota, UrlRota>>, 1)
      [] u = UrlRota -> Pagina(500, <<>>, <<>>, <<>>, <<>>, 0)
      [] u = UrlImagen -> Pagina(200, <<>>, <<>>, <<>>, <<>>, 2)
      [] u = UrlExterna -> Pagina(200, <<>>, <<>>, <<>>, <<>>, 1)
      [] u = UrlLogoExterno -> Pagina(200, <<>>, <<>>, <<>>, <<>>, 1)
      [] OTHER -> Pagina(404, <<>>, <<>>, <<>>, <<>>, 0)

\* requests refuses a URL it has no connection adapter for before any
\* network traffic (MissingSchema / InvalidSchema)
TieneAdaptador(u) == u.scheme \in {"http", "https"}

\* session.get(u) followed by raise_for_status() returns normally
RespuestaOk(u) == TieneAdaptador(u) /\ Web(u).status = 200

\* ------------------------------------------------------------ urllib.parse
RECURSIVE UltimaBarra(_)
UltimaBarra(p) ==
    IF p = <<>> THEN 0
    ELSE IF p[Len(p)] = "/" THEN Len(p)
    ELSE UltimaBarra(SubSeq(p, 1, Len(p) - 1))

urljoin(base, url) ==
    IF url.scheme = "" /\ url.netloc = "" /\ url.path = <<>> THEN base
    ELSE IF url.scheme # "" THEN url
    ELSE IF url.netloc # "" THEN Url(base.scheme, url.netloc, url.path)
    ELSE IF url.path[1] = "/" THEN Url(base.scheme, base.netloc, url.path)
    ELSE IF base.path = <<>> /\ base.netloc # "" THEN Url(base.scheme, base.netloc, <<"/">> \o url.path)
    ELSE Url(base.scheme, base.netloc, SubSeq(base.path, 1, UltimaBarra(base.path)) \o url.path)

\* ---------------------------------------------------------------- the state
VARIABLES
    base_url,               \* self.base_url
    config,                 \* self.config
    cola_urls,              \* self.cola_urls: FIFO of <<url, nivel>>
    urls_procesadas,        \* self.urls_procesadas
    archivos_descargados,   \* self.archivos_descargados
    lock,                   \* self.lock: 0 when free, else the frame that holds it
    progress_bar,           \* the progress_bar argument of descargar_pagina
    estadisticas,           \* self.estadisticas
    futures,                \* the call frames: pool tasks and direct calls
    dpc,                    \* position of the thread inside descargar_pagina
    total_procesado,        \* local of descargar_pagina
    retorno,                \* what descargar_pagina returned
    peticiones,             \* network log: GETs that reached a server, per caller and URL
    escrituras,             \* disk log: completed writes, per source URL
    disco,                  \* the files under carpeta_destino
    contenido,              \* what each file under carpeta_destino holds
    cache,                  \* ResourceManager._cache
    _lock,                  \* ResourceManager._lock: 0 when free, else the call that holds it
    reloj,                  \* time.time()
    rm_llamadas,            \* the call frames of ResourceManager.get_resource
    app_pc,                 \* position of the thread inside descargar_pagina of app.py
    app_soup,               \* soup of app.py: per element, the values of its attributes
    app_futures,            \* the call frames of procesar_elemento (app.py)
    unidad                  \* the last call of a function of webscraper/utils.py

vars == <<base_url, config, lock, progress_bar, cola_urls, urls_procesadas, archivos_descargados,
          estadisticas, futures, dpc, total_procesado, retorno, peticiones,
          escrituras, disco, contenido, cache, _lock, reloj, rm_llamadas, app_pc, app_soup,
          app_futures, unidad>>

scraperVars == <<base_url, config, lock, progress_bar, cola_urls, urls_procesadas, archivos_descargados,
                 estadisticas, futures, dpc, total_procesado, retorno, peticiones,
                 escrituras, disco, contenido>>

appVars == <<cache, _lock, reloj, rm_llamadas>>

paginaVars == <<app_pc, app_soup, app_futures>>

domain == base_url.netloc

\* ------------------------------------------------------------ URL resolver
es_url_interna(url) == url.netloc = domain \/ url.netloc = ""

INVALID_CHARS == {"<", ">", ":", "\"", "/", "\\", "|", "?", "*"}

ExtensionesDocumento == {".html", ".htm", ".php", ".asp", ".aspx"}

IndexHtml == <<"index", ".html">>

RECURSIVE lstrip(_)
lstrip(p) == IF p # <<>> /\ p[1] = "/" THEN lstrip(Tail(p)) ELSE p

Sustituir(p) == [k \in 1..Len(p) |-> IF p[k] \in INVALID_CHARS THEN "_" ELSE p[k]]

NumPartes(p) == 1 + Cardinality({k \in 1..Len(p) : p[k] = "/"})

ConIndice(path) ==
    IF path = <<>> \/ path = <<"/">> THEN IndexHtml
    ELSE IF path[Len(path)] = "/" THEN path \o IndexHtml
    ELSE IF path[Len(path)] \notin ExtensionesDocumento THEN path \o <<"/">> \o IndexHtml
    ELSE path

ConNivel_cuenta(path, nivel) ==
    IF nivel > 0
    THEN <<"nivel_" \o ToString(nivel + estadisticas.archivos_procesados), "/">> \o path
    ELSE path

\* lines 107-113: both branches of line 110 join the same pieces
ConNivel(path, nivel) ==
    IF nivel > 0
    THEN IF NumPartes(path) > 1
         THEN <<"nivel_" \o ToString(nivel), "/">> \o path
         ELSE <<"nivel_" \o ToString(nivel), "/">> \o path
    ELSE path

obtener_ruta_relativa(url, nivel) ==
    IF url = Url("", "", <<>>) THEN None
    ELSE LET parsed == urljoin(base_url, url) IN
         IF parsed.netloc # "" /\ parsed.netloc # domain THEN None
         ELSE ConNivel(Sustituir(lstrip(ConIndice(parsed.path))), nivel)

\* ------------------------------------------------------------ bookkeeping
Veces(f, u) == IF u \in DOMAIN f THEN f[u] ELSE 0

Anotar(f, u) == [x \in (DOMAIN f) \cup {u} |-> IF x = u THEN Veces(f, u) + 1 ELSE f[x]]

AnotarVeces(f, u, n) ==
    [x \in (DOMAIN f) \cup (IF n > 0 THEN {u} ELSE {}) |-> IF x = u THEN Veces(f, u) + n ELSE f[x]]

\* ScraperConfig.MAX_RETRIES (webscraper/config.py, line 28)
MAX_RETRIES == 3

\* _configurar_session (lines 67-73; app.py, lines 111-115) mounts no adapter
\* with retries, and no caller loops over session.get: a request that fails
\* is not sent again
Reintentos == 0

\* the GETs one call session.get(u) puts on the network
Enviadas(u) ==
    IF ~TieneAdaptador(u) THEN 0
    ELSE IF Web(u).status = 200 THEN 1
    ELSE 1 + Reintentos

\* an entry of the network log: who issued the GET, and for which URL
Get(por, url) == [por |-> por, url |-> url]

\* the bytes a server sends for url
Cuerpo(url) == <<"bytes", url>>

\* open(ruta, 'w' or 'wb') followed by the writes: the file holds datos
Escribir(c, ruta, datos) == [x \in (DOMAIN c) \cup {ruta} |-> IF x = ruta THEN datos ELSE c[x]]

\* the activation record of one procesar_pagina task (or of one direct call
\* of descargar_recurso when directa)
Frame(url, nivel, pc, directa) ==
    [url |-> url, nivel |-> nivel, pc |-> pc, directa |-> directa,
     soup |-> NoSoup, i |-> 0, enlaces |-> <<>>, j |-> 0, ret |-> None, gets |-> 0]

\* lines 193-204: the arguments of the descargar_recurso calls of a page, in
\* order.  Line 194 takes the img elements, line 198 the link elements with
\* rel="stylesheet", line 203 the script elements.
Recursos(soup) ==
    (IF config.incluir_imagenes THEN soup.img ELSE <<>>)
    \o (IF config.incluir_css THEN soup.link ELSE <<>>)
    \o (IF config.incluir_js THEN soup.script ELSE <<>>)

\* the url argument of the descargar_recurso call the frame is in
RecursoActual(f) == IF f.directa THEN f.url ELSE Recursos(f.soup)[f.i]

\* the frame once every resource of the page from position i on is handled
IrARecurso(f, i) ==
    IF i <= Len(Recursos(f.soup))
    THEN [f EXCEPT !.pc = "r_check", !.i = i, !.gets = 0]
    ELSE [f EXCEPT !.pc = "p_save", !.i = i]

\* descargar_recurso returns r to its caller
Retornar(f, r) ==
    IF f.directa THEN [f EXCEPT !.pc = "hecho", !.ret = r]
    ELSE [IrARecurso(f, f.i + 1) EXCEPT !.ret = r]

Activos == {k \in 1..Len(futures) : futures[k].pc \notin {"pendiente", "hecho"}}

\* self.config after the constructor (lines 55-62; app.py, lines 102-109): the
\* keyword arguments, each option True unless it is given.  The runs take
\* max_profundidad and at most one option given as False.
Configuraciones ==
    {c \in [max_profundidad : 1..MaxProfundidad, mantener_estructura : BOOLEAN,
             incluir_imagenes : BOOLEAN, incluir_css : BOOLEAN, incluir_js : BOOLEAN] :
        Cardinality({o \in {"mantener_estructura", "incluir_imagenes", "incluir_css",
                            "incluir_js"} : ~c[o]}) <= 1}

\* the options when no keyword argument but max_profundidad is given
PorDefecto(c) ==
    c.mantener_estructura /\ c.incluir_imagenes /\ c.incluir_css /\ c.incluir_js

\* the progress bar the caller hands to descargar_pagina, or none (the
\* default, progress_bar=None).  The bar keeps the last value given to
\* progress(), as the fraction num / den; app.py creates it with
\* st.progress(0) (line 440).
Barra(dada) == [dada |-> dada, veces |-> 0, num |-> 0, den |-> 1]

\* lines 246-247 (app.py, lines 240-241): "if progress_bar:
\* progress_bar.progress(num / den)"
Informar(barra, num, den) ==
    IF barra.dada THEN [barra EXCEPT !.veces = @ + 1, !.num = num, !.den = den]
    ELSE barra

ValorProgreso_pendientes(total, cola) ==
    [num |-> total, den |-> cola]

\* line 247: min(total_procesado / (total_procesado + qsize()), 1.0); the
\* division raises ZeroDivisionError when the denominator is 0
ValorProgreso(total, cola) ==
    IF total + cola # 0 /\ total > total + cola THEN [num |-> 1, den |-> 1]
    ELSE [num |-> total, den |-> total + cola]

\* the state after WebScraper(base_url, carpeta_destino, max_profundidad=...)
\* for a base_url of semillas
Inicial(semillas) ==
    /\ base_url \in semillas
    /\ config \in Configuraciones
    /\ cola_urls = <<>>
    /\ urls_procesadas = {}
    /\ archivos_descargados = {}
    /\ lock = 0
    /\ progress_bar \in {Barra(FALSE), Barra(TRUE)}
    /\ estadisticas = [inicio |-> 0, archivos_procesados |-> 0, bytes_descargados |-> 0,
                       errores |-> 0, tiempo_total |-> 0]
    /\ futures = <<>>
    /\ dpc = "inicio"
    /\ total_procesado = 0
    /\ retorno = "ninguno"
    /\ peticiones = <<>>
    /\ escrituras = <<>>
    /\ disco = {}
    /\ contenido = <<>>
    /\ cache = <<>>
    /\ _lock = 0
    /\ reloj = 0
    /\ rm_llamadas = <<>>
    /\ app_pc = "inicio"
    /\ app_soup = <<>>
    /\ app_futures = <<>>
    /\ unidad = [f |-> "ninguna", arg |-> None, res |-> None]

Init == Inicial(Semillas)

\* ------------------------------------------------- WebScraper.descargar_pagina
\* One action is one step of one thread.  A step ends where the thread next
\* reads or writes state that another thread can touch.  Entering a block
\* "with self.lock:" is a step (adquirir), taken when the lock is free; the
\* body of the block and its exit are the next step of that thread.  The
\* unlocked membership tests (lines 123, 181, 218, 237) are steps of their
\* own, apart from the insertions that follow them under the lock.

\* line 229-230
dp_inicio ==
    /\ dpc = "inicio"
    /\ cola_urls' = Append(cola_urls, [url |-> base_url, nivel |-> 0])
    /\ total_procesado' = 0
    /\ dpc' = "bucle"
    /\ UNCHANGED <<base_url, config, progress_bar, lock, urls_procesadas, archivos_descargados, estadisticas,
                   futures, retorno, peticiones, escrituras, disco, contenido, appVars, paginaVars, unidad>>

\* lines 235-247: one turn of the while loop.  Only this thread takes jobs off
\* the queue, so empty(), get() and the test of line 237 are one step.  A
\* division by zero at line 247 is caught at line 254, after the executor has
\* been shut down.
dp_bucle ==
    /\ dpc = "bucle"
    /\ cola_urls # <<>>
    /\ LET job == Head(cola_urls)
           valor == ValorProgreso(total_procesado + 1, Len(Tail(cola_urls))) IN
       /\ cola_urls' = Tail(cola_urls)
       /\ futures' = IF job.url \notin urls_procesadas
                     THEN Append(futures, Frame(job.url, job.nivel, "pendiente", FALSE))
                     ELSE futures
       /\ IF progress_bar.dada /\ valor.den = 0
          THEN dpc' = "excepcion" /\ UNCHANGED progress_bar
          ELSE dpc' = dpc /\ progress_bar' = Informar(progress_bar, valor.num, valor.den)
    /\ total_procesado' = total_procesado + 1
    /\ UNCHANGED <<base_url, config, lock, urls_procesadas, archivos_descargados, estadisticas,
                   retorno, peticiones, escrituras, disco, contenido, appVars, paginaVars, unidad>>

dp_salir_bloqueado ==
    /\ dpc = "bucle"
    /\ cola_urls = <<>>
    /\ dpc' = "bucle"
    /\ UNCHANGED <<base_url, config, progress_bar, lock, cola_urls, urls_procesadas, archivos_descargados,
                   estadisticas, futures, total_procesado, retorno, peticiones,
                   escrituras, disco, contenido, appVars, paginaVars, unidad>>

\* line 235: the queue is seen empty and the loop is left
dp_salir ==
    /\ dpc = "bucle"
    /\ cola_urls = <<>>
    /\ dpc' = "esperando"
    /\ UNCHANGED <<base_url, config, progress_bar, lock, cola_urls, urls_procesadas, archivos_descargados,
                   estadisticas, futures, total_procesado, retorno, peticiones,
                   escrituras, disco, contenido, appVars, paginaVars, unidad>>

\* lines 249-252: wait(futures), the executor shuts down, return True; or
\* lines 254-256 after an exception in the loop: the with block of line 232
\* is left once the tasks have ended, return False
dp_retornar ==
    /\ dpc \in {"esperando", "excepcion"}
    /\ \A k \in 1..Len(futures) : futures[k].pc = "hecho"
    /\ estadisticas' = IF dpc = "esperando"
                       THEN [estadisticas EXCEPT !.tiempo_total = reloj - estadisticas.inicio]
                       ELSE estadisticas
    /\ retorno' = IF dpc = "esperando" THEN "True" ELSE "False"
    /\ dpc' = "retornado"
    /\ UNCHANGED <<base_url, config, progress_bar, lock, cola_urls, urls_procesadas, archivos_descargados,
                   futures, total_procesado, peticiones, escrituras, disco, contenido, appVars, paginaVars, unidad>>

\* ------------------------------------------------- WebScraper.procesar_enlaces
RECURSIVE Filtrar(_, _)
Filtrar(hrefs, vistas) ==
    IF hrefs = <<>> THEN <<>>
    ELSE LET url_completa == urljoin(base_url, Head(hrefs)) IN
         (IF es_url_interna(url_completa) /\ url_completa \notin vistas
          THEN <<url_completa>> ELSE <<>>) \o Filtrar(Tail(hrefs), vistas)

procesar_enlaces(soup, nivel_actual) ==
    IF nivel_actual >= config.max_profundidad THEN <<>>
    ELSE Filtrar(soup.a, urls_procesadas)

NivelHijo_salto(nivel) == nivel + 2

\* the depth given to a link found on a page of depth nivel (line 219)
NivelHijo(nivel) == nivel + 1

\* -------------------------------------------------- WebScraper.procesar_pagina
HayHiloLibre_siempre == TRUE

\* line 232: ThreadPoolExecutor(max_workers=5) runs a submitted task only on
\* one of its five threads
HayHiloLibre == Cardinality(Activos) < MAX_WORKERS

\* a pool thread takes the task; line 181
pp_entrar(k) ==
    /\ futures[k].pc = "pendiente"
    /\ HayHiloLibre
    /\ futures' = [futures EXCEPT ![k].pc =
                      IF futures[k].url \in urls_procesadas THEN "hecho" ELSE "p_add"]
    /\ UNCHANGED <<base_url, config, progress_bar, lock, cola_urls, urls_procesadas, archivos_descargados,
                   estadisticas, dpc, total_procesado, retorno, peticiones, escrituras,
                   disco, contenido, appVars, paginaVars, unidad>>

\* the frame waits to enter a block "with self.lock:" (lines 148, 151, 159,
\* 185, 223)
EsperaLock == {"p_add", "p_err", "r_bytes", "r_add", "r_err"}

\* "with self.lock:" is entered once the lock is free
adquirir(k) ==
    /\ futures[k].pc \in EsperaLock
    /\ lock = 0
    /\ lock' = k
    /\ futures' = [futures EXCEPT ![k].pc = futures[k].pc \o "_in"]
    /\ UNCHANGED <<base_url, config, progress_bar, cola_urls, urls_procesadas, archivos_descargados,
                   estadisticas, dpc, total_procesado, retorno, peticiones, escrituras,
                   disco, contenido, appVars, paginaVars, unidad>>

pp_marcar_sin_cerrojo(k) ==
    /\ futures[k].pc = "p_add"
    /\ urls_procesadas' = urls_procesadas \cup {futures[k].url}
    /\ futures' = [futures EXCEPT ![k].pc = "p_get"]
    /\ UNCHANGED <<base_url, config, progress_bar, lock, cola_urls, archivos_descargados, estadisticas, dpc,
                   total_procesado, retorno, peticiones, escrituras, disco, contenido, appVars, paginaVars, unidad>>

\* line 186, and the block of line 185 is left
pp_marcar(k) ==
    /\ futures[k].pc = "p_add_in"
    /\ urls_procesadas' = urls_procesadas \cup {futures[k].url}
    /\ lock' = 0
    /\ futures' = [futures EXCEPT ![k].pc = "p_get"]
    /\ UNCHANGED <<base_url, config, progress_bar, cola_urls, archivos_descargados, estadisticas, dpc,
                   total_procesado, retorno, peticiones, escrituras, disco, contenido, appVars, paginaVars, unidad>>

\* lines 188-190; when the request raises, control goes to line 221
pp_get(k) ==
    LET f == futures[k] IN
    /\ f.pc = "p_get"
    /\ peticiones' = AnotarVeces(peticiones, Get("procesar_pagina", f.url), Enviadas(f.url))
    /\ futures' = [futures EXCEPT ![k] =
                      IF RespuestaOk(f.url) THEN IrARecurso([f EXCEPT !.soup = Web(f.url)], 1)
                      ELSE [f EXCEPT !.pc = "p_err", !.gets = Enviadas(f.url)]]
    /\ UNCHANGED <<base_url, config, progress_bar, lock, cola_urls, urls_procesadas, archivos_descargados,
                   estadisticas, dpc, total_procesado, retorno, escrituras, disco, contenido,
                   appVars, paginaVars, unidad>>

pp_error_retiene(k) ==
    /\ futures[k].pc = "p_err_in"
    /\ estadisticas' = [estadisticas EXCEPT !.errores = @ + 1]
    /\ futures' = [futures EXCEPT ![k].pc = "hecho"]
    /\ UNCHANGED <<base_url, config, progress_bar, lock, cola_urls, urls_procesadas, archivos_descargados, dpc,
                   total_procesado, retorno, peticiones, escrituras, disco, contenido,
                   appVars, paginaVars, unidad>>

\* lines 221-224: the except branch of procesar_pagina, inside its with block
pp_error(k) ==
    /\ futures[k].pc = "p_err_in"
    /\ estadisticas' = [estadisticas EXCEPT !.errores = @ + 1]
    /\ lock' = 0
    /\ futures' = [futures EXCEPT ![k].pc = "hecho"]
    /\ UNCHANGED <<base_url, config, progress_bar, cola_urls, urls_procesadas, archivos_descargados, dpc,
                   total_procesado, retorno, peticiones, escrituras, disco, contenido,
                   appVars, paginaVars, unidad>>

\* lines 207-212
pp_guardar(k) ==
    LET f == futures[k]
        ruta_relativa == obtener_ruta_relativa(f.url, f.nivel) IN
    /\ f.pc = "p_save"
    /\ IF ruta_relativa # None
       THEN /\ disco' = disco \cup {ruta_relativa}
            /\ contenido' = Escribir(contenido, ruta_relativa, f.soup)
            /\ escrituras' = Anotar(escrituras, f.url)
       ELSE UNCHANGED <<disco, contenido, escrituras>>
    /\ futures' = [futures EXCEPT ![k].pc = "p_links"]
    /\ UNCHANGED <<base_url, config, progress_bar, lock, cola_urls, urls_procesadas, archivos_descargados,
                   estadisticas, dpc, total_procesado, retorno, peticiones, appVars, paginaVars, unidad>>

\* lines 215-216
pp_enlaces(k) ==
    LET f == futures[k]
        enlaces == IF f.nivel < config.max_profundidad
                   THEN procesar_enlaces(f.soup, f.nivel) ELSE <<>> IN
    /\ f.pc = "p_links"
    /\ futures' = [futures EXCEPT ![k] =
                      IF enlaces = <<>> THEN [f EXCEPT !.pc = "hecho"]
                      ELSE [f EXCEPT !.pc = "p_test", !.enlaces = enlaces, !.j = 1]]
    /\ UNCHANGED <<base_url, config, progress_bar, lock, cola_urls, urls_procesadas, archivos_descargados,
                   estadisticas, dpc, total_procesado, retorno, peticiones, escrituras,
                   disco, contenido, appVars, paginaVars, unidad>>

\* the frame once the link at position j of enlaces is dealt with
SiguienteEnlace(f) ==
    IF f.j < Len(f.enlaces) THEN [f EXCEPT !.pc = "p_test", !.j = f.j + 1]
    ELSE [f EXCEPT !.pc = "hecho"]

\* lines 217-218: one turn of the for loop, up to the unlocked test
pp_probar(k) ==
    LET f == futures[k]
        enlace == f.enlaces[f.j] IN
    /\ f.pc = "p_test"
    /\ futures' = [futures EXCEPT ![k] =
                      IF enlace \notin urls_procesadas THEN [f EXCEPT !.pc = "p_put"]
                      ELSE SiguienteEnlace(f)]
    /\ UNCHANGED <<base_url, config, progress_bar, lock, cola_urls, urls_procesadas, archivos_descargados,
                   estadisticas, dpc, total_procesado, retorno, peticiones, escrituras,
                   disco, contenido, appVars, paginaVars, unidad>>

\* line 219
pp_encolar(k) ==
    LET f == futures[k]
        enlace == f.enlaces[f.j] IN
    /\ f.pc = "p_put"
    /\ cola_urls' = Append(cola_urls, [url |-> enlace, nivel |-> NivelHijo(f.nivel)])
    /\ futures' = [futures EXCEPT ![k] = SiguienteEnlace(f)]
    /\ UNCHANGED <<base_url, config, progress_bar, lock, urls_procesadas, archivos_descargados, estadisticas,
                   dpc, total_procesado, retorno, peticiones, escrituras, disco, contenido, appVars, paginaVars, unidad>>

\* ------------------------------------------------ WebScraper.descargar_recurso
RegistrarError_olvida(est) == est

\* the except branch, lines 157-160
RegistrarError(est) == [est EXCEPT !.errores = @ + 1]

\* lines 123-134
dr_entrar(k) ==
    LET f == futures[k]
        url == RecursoActual(f) IN
    /\ f.pc = "r_check"
    /\ futures' = [futures EXCEPT ![k] =
                      IF \/ url = Url("", "", <<>>)
                         \/ url \in archivos_descargados
                         \/ obtener_ruta_relativa(url, f.nivel) = None
                      THEN Retornar(f, None)
                      ELSE [f EXCEPT !.pc = "r_get"]]
    /\ UNCHANGED <<base_url, config, progress_bar, lock, cola_urls, urls_procesadas, archivos_descargados,
                   estadisticas, dpc, total_procesado, retorno, peticiones, escrituras,
                   disco, contenido, appVars, paginaVars, unidad>>

\* lines 137-147: the request, and the body written to the file chunk by
\* chunk; the file is complete when the step ends.  When the request raises,
\* control goes to line 157.
dr_get(k) ==
    LET f == futures[k]
        url == RecursoActual(f)
        destino == urljoin(base_url, url) IN
    /\ f.pc = "r_get"
    /\ peticiones' = AnotarVeces(peticiones, Get("descargar_recurso", destino), Enviadas(destino))
    /\ IF RespuestaOk(destino)
       THEN /\ disco' = disco \cup {obtener_ruta_relativa(url, f.nivel)}
            /\ contenido' = Escribir(contenido, obtener_ruta_relativa(url, f.nivel), Cuerpo(destino))
            /\ escrituras' = Anotar(escrituras, url)
            /\ futures' = [futures EXCEPT ![k].pc = "r_bytes", ![k].gets = Enviadas(destino)]
       ELSE /\ futures' = [futures EXCEPT ![k].pc = "r_err", ![k].gets = Enviadas(destino)]
            /\ UNCHANGED <<disco, contenido, escrituras>>
    /\ UNCHANGED <<base_url, config, progress_bar, lock, cola_urls, urls_procesadas, archivos_descargados,
                   estadisticas, dpc, total_procesado, retorno, appVars, paginaVars, unidad>>

\* lines 148-149: the bytes of the chunks are added inside the with block
dr_contar(k) ==
    LET f == futures[k]
        destino == urljoin(base_url, RecursoActual(f)) IN
    /\ f.pc = "r_bytes_in"
    /\ estadisticas' = [estadisticas EXCEPT !.bytes_descargados = @ + Web(destino).len]
    /\ lock' = 0
    /\ futures' = [futures EXCEPT ![k].pc = "r_add"]
    /\ UNCHANGED <<base_url, config, progress_bar, cola_urls, urls_procesadas, archivos_descargados, dpc,
                   total_procesado, retorno, peticiones, escrituras, disco, contenido,
                   appVars, paginaVars, unidad>>

\* lines 152-155: the body of the with block of line 151, and the return
dr_registrar(k) ==
    LET f == futures[k]
        url == RecursoActual(f) IN
    /\ f.pc = "r_add_in"
    /\ archivos_descargados' = archivos_descargados \cup {url}
    /\ estadisticas' = [estadisticas EXCEPT !.archivos_procesados = @ + 1]
    /\ lock' = 0
    /\ futures' = [futures EXCEPT ![k] = Retornar(f, obtener_ruta_relativa(url, f.nivel))]
    /\ UNCHANGED <<base_url, config, progress_bar, cola_urls, urls_procesadas, dpc, total_procesado,
                   retorno, peticiones, escrituras, disco, contenido, appVars, paginaVars, unidad>>

\* lines 157-161: the except branch of descargar_recurso, inside its with
\* block, and the return
dr_error(k) ==
    LET f == futures[k] IN
    /\ f.pc = "r_err_in"
    /\ estadisticas' = RegistrarError(estadisticas)
    /\ lock' = 0
    /\ futures' = [futures EXCEPT ![k] = Retornar(f, None)]
    /\ UNCHANGED <<base_url, config, progress_bar, cola_urls, urls_procesadas, archivos_descargados, dpc,
                   total_procesado, retorno, peticiones, escrituras, disco, contenido,
                   appVars, paginaVars, unidad>>

\* the main thread is between two calls
EnReposo ==
    /\ \A k \in 1..Len(futures) : futures[k].pc = "hecho"
    /\ \A k \in 1..Len(rm_llamadas) : rm_llamadas[k].pc = "hecho"

\* a direct call descargar_recurso(url, nivel) from the main thread, made
\* once the previous call has returned (tests/test_scraper.py, lines 99-135
\* and 149-164)
UrlsDirectas == {UrlImagen, Url404, UrlGrande, UrlPhp}

\* the URLs get_resource is called with
UrlsCache == {UrlImagen, Url404}

dr_llamar(url, nivel) ==
    /\ dpc = "inicio"
    /\ Len(futures) < MaxLlamadas
    /\ EnReposo
    /\ futures' = Append(futures, Frame(url, nivel, "r_check", TRUE))
    /\ UNCHANGED <<base_url, config, progress_bar, lock, cola_urls, urls_procesadas, archivos_descargados,
                   estadisticas, dpc, total_procesado, retorno, peticiones, escrituras,
                   disco, contenido, appVars, paginaVars, unidad>>

\* ------------------------------------------- ResourceManager (src/app.py)
\* hashlib.md5(url.encode()).hexdigest(): one digest per URL string
_get_cache_key(url) == <<"md5", url>>

RmFrame(url) ==
    [url |-> url, pc |-> "g_lookup", ret |-> None, gets |-> 0, t_consulta |-> 0,
     data |-> None]

\* a call get_resource(url), made once the previous call has returned
rm_llamar(url) ==
    /\ Len(rm_llamadas) < MaxLlamadas
    /\ EnReposo
    /\ rm_llamadas' = Append(rm_llamadas, RmFrame(url))
    /\ UNCHANGED <<scraperVars, cache, _lock, reloj, paginaVars, unidad>>

Vigente_invertida(cached) == reloj - cached.timestamp > CACHE_EXPIRY

\* the test of line 57
Vigente(cached) == reloj - cached.timestamp < CACHE_EXPIRY

rm_adquirir_sin_esperar(k) ==
    LET c == rm_llamadas[k] IN
    /\ c.pc \in {"g_lookup", "g_store"}
    /\ _lock' = k
    /\ rm_llamadas' = [rm_llamadas EXCEPT ![k].pc =
                          IF c.pc = "g_lookup" THEN "g_lookup_in" ELSE "g_store_in"]
    /\ UNCHANGED <<scraperVars, cache, reloj, paginaVars, unidad>>

\* lines 55 and 70: "with self._lock:" is entered once the lock is free
rm_adquirir(k) ==
    LET c == rm_llamadas[k] IN
    /\ c.pc \in {"g_lookup", "g_store"}
    /\ _lock = 0
    /\ _lock' = k
    /\ rm_llamadas' = [rm_llamadas EXCEPT ![k].pc =
                          IF c.pc = "g_lookup" THEN "g_lookup_in" ELSE "g_store_in"]
    /\ UNCHANGED <<scraperVars, cache, reloj, paginaVars, unidad>>

\* lines 56-58: the body of the first with block; the lock is released when
\* the block is left, by the return as well
rm_buscar(k) ==
    LET c == rm_llamadas[k]
        cache_key == _get_cache_key(c.url) IN
    /\ c.pc = "g_lookup_in"
    /\ _lock' = 0
    /\ rm_llamadas' = [rm_llamadas EXCEPT ![k] =
                          IF cache_key \in DOMAIN cache /\ Vigente(cache[cache_key])
                          THEN [c EXCEPT !.pc = "hecho", !.t_consulta = reloj,
                                         !.ret = cache[cache_key].data]
                          ELSE [c EXCEPT !.pc = "g_get", !.t_consulta = reloj]]
    /\ UNCHANGED <<scraperVars, cache, reloj, paginaVars, unidad>>

\* lines 60-68, and 77-79 when the request raises
rm_get(k) ==
    LET c == rm_llamadas[k] IN
    /\ c.pc = "g_get"
    /\ peticiones' = AnotarVeces(peticiones, Get("get_resource", c.url), Enviadas(c.url))
    /\ rm_llamadas' = [rm_llamadas EXCEPT ![k] =
                          IF RespuestaOk(c.url)
                          THEN [c EXCEPT !.pc = "g_store", !.data = Cuerpo(c.url),
                                         !.gets = @ + Enviadas(c.url)]
                          ELSE [c EXCEPT !.pc = "hecho", !.ret = None,
                                         !.gets = @ + Enviadas(c.url)]]
    /\ UNCHANGED <<base_url, config, progress_bar, lock, cola_urls, urls_procesadas, archivos_descargados,
                   estadisticas, futures, dpc, total_procesado, retorno, escrituras,
                   disco, contenido, cache, _lock, reloj, paginaVars, unidad>>

Entrada_sin_hora(data) == [data |-> data, timestamp |-> 0]

\* lines 71-74: the entry stored, with the time of the store
Entrada(data) == [data |-> data, timestamp |-> reloj]

\* lines 71-76: the body of the second with block, and the return
rm_guardar(k) ==
    LET c == rm_llamadas[k]
        cache_key == _get_cache_key(c.url)
        entrada == Entrada(c.data) IN
    /\ c.pc = "g_store_in"
    /\ _lock' = 0
    /\ cache' = [x \in (DOMAIN cache) \cup {cache_key} |->
                    IF x = cache_key THEN entrada ELSE cache[x]]
    /\ rm_llamadas' = [rm_llamadas EXCEPT ![k] = [c EXCEPT !.pc = "hecho", !.ret = c.data]]
    /\ UNCHANGED <<scraperVars, reloj, paginaVars, unidad>>

\* time passes
Tic ==
    /\ reloj + PasoReloj <= MaxReloj
    /\ reloj' = reloj + PasoReloj
    /\ UNCHANGED <<scraperVars, cache, _lock, rm_llamadas, paginaVars, unidad>>

Next ==
    \/ dp_inicio
    \/ dp_bucle
    \/ dp_salir
    \/ dp_retornar
    \/ \E k \in 1..Len(futures) : pp_entrar(k)
    \/ \E k \in 1..Len(futures) : adquirir(k)
    \/ \E k \in 1..Len(futures) : pp_marcar(k)
    \/ \E k \in 1..Len(futures) : pp_get(k)
    \/ \E k \in 1..Len(futures) : pp_error(k)
    \/ \E k \in 1..Len(futures) : dr_entrar(k)
    \/ \E k \in 1..Len(futures) : dr_get(k)
    \/ \E k \in 1..Len(futures) : dr_contar(k)
    \/ \E k \in 1..Len(futures) : dr_registrar(k)
    \/ \E k \in 1..Len(futures) : dr_error(k)
    \/ \E k \in 1..Len(futures) : pp_guardar(k)
    \/ \E k \in 1..Len(futures) : pp_enlaces(k)
    \/ \E k \in 1..Len(futures) : pp_probar(k)
    \/ \E k \in 1..Len(futures) : pp_encolar(k)
    \/ Tic

Spec == Init /\ [][Next]_vars

\* the steps of the thread that runs descargar_pagina
Despachador == dp_inicio \/ dp_bucle \/ dp_salir \/ dp_retornar

\* the steps of the threads of the pool
Trabajadores ==
    \E k \in 1..Len(futures) :
        \/ pp_entrar(k) \/ adquirir(k) \/ pp_marcar(k) \/ pp_get(k) \/ pp_error(k)
        \/ dr_entrar(k) \/ dr_get(k) \/ dr_contar(k) \/ dr_registrar(k) \/ dr_error(k)
        \/ pp_guardar(k) \/ pp_enlaces(k) \/ pp_probar(k) \/ pp_encolar(k)

\* the crawls of a page with links, of a page with a resource that fails and
\* of a page that fails, with a progress bar and the default options
InitJusto ==
    /\ Inicial({UrlA, UrlC, UrlRota})
    /\ PorDefecto(config)
    /\ progress_bar.dada

\* the crawl under a scheduler that keeps the program running: while a
\* thread of the program can take a step, one of them does.  A request or a
\* write returns (timeout=30, line 139), so a step that is enabled ends.  The
\* passing of time alone is not counted as a step of the program.
SpecJusto == InitJusto /\ [][Next]_vars /\ WF_vars(Despachador \/ Trabajadores)

\* the operations called one after another from a single thread
NextSeq ==
    \/ \E url \in UrlsDirectas, nivel \in 0..1 : dr_llamar(url, nivel)
    \/ \E k \in 1..Len(futures) : adquirir(k)
    \/ \E k \in 1..Len(futures) : dr_entrar(k)
    \/ \E k \in 1..Len(futures) : dr_get(k)
    \/ \E k \in 1..Len(futures) : dr_contar(k)
    \/ \E k \in 1..Len(futures) : dr_registrar(k)
    \/ \E k \in 1..Len(futures) : dr_error(k)
    \/ \E url \in UrlsCache : rm_llamar(url)
    \/ \E k \in 1..Len(rm_llamadas) : rm_adquirir(k)
    \/ \E k \in 1..Len(rm_llamadas) : rm_buscar(k)
    \/ \E k \in 1..Len(rm_llamadas) : rm_get(k)
    \/ \E k \in 1..Len(rm_llamadas) : rm_guardar(k)
    \/ Tic

\* the scraper of setUp (tests/test_scraper.py, lines 18-22)
InitSeq ==
    /\ Init /\ base_url = UrlRaiz /\ config.max_profundidad = 1 /\ PorDefecto(config)
    /\ ~progress_bar.dada

SpecSeq == InitSeq /\ [][NextSeq]_vars

\* the crawl of a page with more links than the pool has threads; the pages
\* linked answer 404
InitPool ==
    /\ Inicial({UrlP}) /\ config.max_profundidad = 1 /\ PorDefecto(config)
    /\ progress_bar.dada

SpecPool == InitPool /\ [][Next]_vars

\* ---------------------------------------------------- WebScraper.validar_url
\* the characters of line 124; the backquote is written "U+0060"
CaracteresProhibidos == {"<", ">", "\"", "'", "{", "}", "|", "\\", "^", "[", "]", "U+0060"}

validar_url(url) ==
    /\ url.scheme \in {"http", "https"}
    /\ url.netloc # ""
    /\ \A k \in 1..Len(url.path) : url.path[k] \notin CaracteresProhibidos

\* the value an attribute has once it is rewritten to the local path ruta
Local(ruta) == Url("", "", ruta)

\* --------------------------------------------- WebScraper of src/app.py
\* The scraper of app.py has the fields base_url, domain, config,
\* archivos_descargados and estadisticas of the scraper of webscraper/scraper.py
\* and a resource_manager; one run has one scraper, of one class or the other.
SemillasApp == {UrlF, UrlG, UrlH, UrlM, UrlRota, UrlInvalida}

\* what the scraper of webscraper/scraper.py has and the one of app.py has not
colaVars == <<cola_urls, urls_procesadas, futures, dpc, total_procesado>>

\* lines 129-153: no nivel, no index.html after a name without extension
obtener_ruta_relativa_app(url) ==
    IF url = Url("", "", <<>>) THEN None
    ELSE LET parsed == urljoin(base_url, url)
             path == IF parsed.path = <<>> \/ parsed.path = <<"/">> THEN IndexHtml
                     ELSE IF parsed.path[Len(parsed.path)] = "/" THEN parsed.path \o IndexHtml
                     ELSE parsed.path IN
         IF parsed.netloc # "" /\ parsed.netloc # domain THEN None
         ELSE lstrip(Sustituir(path))

\* lines 209-223 and 233-234: the elements find_all yields, tag by tag in the order of
\* elementos_a_procesar, each with the attribute of its list that it carries
Etiquetas(tag, attr, valores) ==
    [n \in 1..Len(valores) |-> [tag |-> tag, attr |-> attr, valor |-> valores[n]]]

Elementos(soup) ==
    (IF config.incluir_imagenes
     THEN Etiquetas("img", "src", soup.img) \o Etiquetas("video", "src", soup.video)
     ELSE <<>>)
    \o (IF config.incluir_css THEN Etiquetas("link", "href", soup.link \o soup.otros) ELSE <<>>)
    \o (IF config.incluir_js THEN Etiquetas("script", "src", soup.script) ELSE <<>>)

\* the activation record of one procesar_elemento task
AppFrame(e) == [e |-> e, pc |-> "pendiente", rm |-> 0, ruta |-> None, leido |-> 0, ret |-> None]

AppActivos == {k \in 1..Len(app_futures) : app_futures[k].pc \notin {"pendiente", "hecho"}}

\* lines 201-209, and 254-257 when the URL is refused or the request raises
ap_inicio ==
    /\ app_pc = "inicio"
    /\ peticiones' = IF validar_url(base_url)
                     THEN AnotarVeces(peticiones, Get("descargar_pagina", base_url),
                                      Enviadas(base_url))
                     ELSE peticiones
    /\ IF validar_url(base_url) /\ RespuestaOk(base_url)
       THEN /\ app_soup' = Elementos(Web(base_url))
            /\ app_pc' = "enviar"
            /\ UNCHANGED <<estadisticas, retorno>>
       ELSE /\ estadisticas' = [estadisticas EXCEPT !.errores = @ + 1]
            /\ retorno' = "False"
            /\ app_pc' = "retornado"
            /\ UNCHANGED app_soup
    /\ UNCHANGED <<base_url, config, progress_bar, lock, colaVars, archivos_descargados, escrituras, disco,
                   contenido, appVars, app_futures, unidad>>

\* lines 233-243: one turn of the loops, one task submitted
ap_enviar ==
    /\ app_pc = "enviar"
    /\ Len(app_futures) < Len(app_soup)
    /\ app_futures' = Append(app_futures, AppFrame(Len(app_futures) + 1))
    /\ progress_bar' = Informar(progress_bar, Len(app_futures) + 1, Len(app_soup))
    /\ UNCHANGED <<base_url, config, lock, colaVars, archivos_descargados, estadisticas, retorno,
                   peticiones, escrituras, disco, contenido, appVars, app_pc, app_soup, unidad>>

\* lines 230 and 245-252: the with block is left once every task has ended, then the
\* page is written to index.html and the run returns
ap_guardar ==
    /\ app_pc = "enviar"
    /\ Len(app_futures) = Len(app_soup)
    /\ \A k \in 1..Len(app_futures) : app_futures[k].pc = "hecho"
    /\ disco' = disco \cup {IndexHtml}
    /\ contenido' = Escribir(contenido, IndexHtml, app_soup)
    /\ escrituras' = Anotar(escrituras, base_url)
    /\ estadisticas' = [estadisticas EXCEPT !.tiempo_total = reloj - estadisticas.inicio]
    /\ retorno' = "True"
    /\ app_pc' = "retornado"
    /\ UNCHANGED <<base_url, config, progress_bar, lock, colaVars, archivos_descargados, peticiones, appVars,
                   app_soup, app_futures, unidad>>

\* procesar_elemento, lines 192-195, into descargar_recurso, lines 157-175:
\* the unlocked test of line 157, the validation, and the call of get_resource
ae_entrar(k) ==
    LET t == app_futures[k]
        url == app_soup[t.e].valor
        ruta_relativa == obtener_ruta_relativa_app(url) IN
    /\ t.pc = "pendiente"
    /\ Cardinality(AppActivos) < MAX_WORKERS
    /\ IF \/ url = Url("", "", <<>>)
          \/ url \in archivos_descargados
          \/ ~validar_url(url)
          \/ ruta_relativa = None
       THEN /\ app_futures' = [app_futures EXCEPT ![k].pc = "hecho"]
            /\ UNCHANGED rm_llamadas
       ELSE /\ app_futures' = [app_futures EXCEPT ![k].pc = "d_get",
                                                  ![k].ruta = ruta_relativa,
                                                  ![k].rm = Len(rm_llamadas) + 1]
            /\ rm_llamadas' = Append(rm_llamadas, RmFrame(urljoin(base_url, url)))
    /\ UNCHANGED <<scraperVars, cache, _lock, reloj, app_pc, app_soup, unidad>>

\* lines 175-178: get_resource has returned; the body, when there is one, is
\* written to the file
ae_escribir(k) ==
    LET t == app_futures[k]
        url == app_soup[t.e].valor
        contenido_recibido == rm_llamadas[t.rm].ret IN
    /\ t.pc = "d_get"
    /\ rm_llamadas[t.rm].pc = "hecho"
    /\ IF contenido_recibido # None /\ Web(rm_llamadas[t.rm].url).len > 0
       THEN /\ disco' = disco \cup {t.ruta}
            /\ contenido' = Escribir(contenido, t.ruta, contenido_recibido)
            /\ escrituras' = Anotar(escrituras, url)
            /\ app_futures' = [app_futures EXCEPT ![k].pc = "d_add"]
       ELSE /\ app_futures' = [app_futures EXCEPT ![k].pc = "hecho"]
            /\ UNCHANGED <<disco, contenido, escrituras>>
    /\ UNCHANGED <<base_url, config, progress_bar, lock, colaVars, archivos_descargados, estadisticas, retorno,
                   peticiones, appVars, app_pc, app_soup, unidad>>

\* line 180
ae_registrar(k) ==
    LET t == app_futures[k] IN
    /\ t.pc = "d_add"
    /\ archivos_descargados' = archivos_descargados \cup {app_soup[t.e].valor}
    /\ app_futures' = [app_futures EXCEPT ![k].pc = "d_leer_archivos"]
    /\ UNCHANGED <<base_url, config, progress_bar, lock, colaVars, estadisticas, retorno, peticiones, escrituras,
                   disco, contenido, appVars, app_pc, app_soup, unidad>>

\* Lines 181 and 182 are "+=" on an entry of a dict shared by the tasks, with
\* no lock held: the entry is read, and the sum is stored in a later step.
ae_leer_archivos(k) ==
    LET t == app_futures[k] IN
    /\ t.pc = "d_leer_archivos"
    /\ app_futures' = [app_futures EXCEPT ![k].pc = "d_sumar_archivos",
                                          ![k].leido = estadisticas.archivos_procesados]
    /\ UNCHANGED <<scraperVars, appVars, app_pc, app_soup, unidad>>

ae_sumar_archivos(k) ==
    LET t == app_futures[k] IN
    /\ t.pc = "d_sumar_archivos"
    /\ estadisticas' = [estadisticas EXCEPT !.archivos_procesados = t.leido + 1]
    /\ app_futures' = [app_futures EXCEPT ![k].pc = "d_leer_bytes"]
    /\ UNCHANGED <<base_url, config, progress_bar, lock, colaVars, archivos_descargados, retorno, peticiones,
                   escrituras, disco, contenido, appVars, app_pc, app_soup, unidad>>

ae_leer_bytes(k) ==
    LET t == app_futures[k] IN
    /\ t.pc = "d_leer_bytes"
    /\ app_futures' = [app_futures EXCEPT ![k].pc = "d_sumar_bytes",
                                          ![k].leido = estadisticas.bytes_descargados]
    /\ UNCHANGED <<scraperVars, appVars, app_pc, app_soup, unidad>>

\* line 182, then line 183 and lines 195-197: the attribute of the element,
\* which no other task touches, takes the path returned
ae_sumar_bytes(k) ==
    LET t == app_futures[k] IN
    /\ t.pc = "d_sumar_bytes"
    /\ estadisticas' = [estadisticas EXCEPT
                           !.bytes_descargados = t.leido + Web(rm_llamadas[t.rm].url).len]
    /\ app_futures' = [app_futures EXCEPT ![k].pc = "hecho", ![k].ret = t.ruta]
    /\ app_soup' = [app_soup EXCEPT ![t.e].valor = Local(t.ruta)]
    /\ UNCHANGED <<base_url, config, progress_bar, lock, colaVars, archivos_descargados, retorno, peticiones,
                   escrituras, disco, contenido, appVars, app_pc, unidad>>

NextApp ==
    \/ ap_inicio
    \/ ap_enviar
    \/ ap_guardar
    \/ \E k \in 1..Len(app_futures) : ae_entrar(k)
    \/ \E k \in 1..Len(rm_llamadas) : rm_adquirir(k)
    \/ \E k \in 1..Len(rm_llamadas) : rm_buscar(k)
    \/ \E k \in 1..Len(rm_llamadas) : rm_get(k)
    \/ \E k \in 1..Len(rm_llamadas) : rm_guardar(k)
    \/ \E k \in 1..Len(app_futures) : ae_escribir(k)
    \/ \E k \in 1..Len(app_futures) : ae_registrar(k)
    \/ \E k \in 1..Len(app_futures) : ae_leer_archivos(k)
    \/ \E k \in 1..Len(app_futures) : ae_sumar_archivos(k)
    \/ \E k \in 1..Len(app_futures) : ae_leer_bytes(k)
    \/ \E k \in 1..Len(app_futures) : ae_sumar_bytes(k)
    \/ Tic

InitApp == Inicial(SemillasApp) /\ config.max_profundidad = 1

SpecApp == InitApp /\ [][NextApp]_vars

\* ------------------------------------------- WebScraper.obtener_estadisticas
Max(a, b) == IF a > b THEN a ELSE b

\* lines 260-270 of webscraper/scraper.py.  The quotient of line 267 is kept in
\* whole bytes per second, its divisor in thousandths (0.001 is 1)
obtener_estadisticas ==
    [archivos_procesados |-> estadisticas.archivos_procesados,
     bytes_descargados |-> estadisticas.bytes_descargados,
     errores |-> estadisticas.errores,
     tiempo_total |-> estadisticas.tiempo_total,
     paginas_procesadas |-> Cardinality(urls_procesadas),
     velocidad_promedio |->
         (estadisticas.bytes_descargados * 1000) \div Max(estadisticas.tiempo_total * 1000, 1)]

\* ------------------------------------------------------ webscraper/utils.py
\* A file name is the sequence of its characters.
VALID_SCHEMES == {"http", "https"}

SUPPORTED_EXTENSIONS ==
    {".jpg", ".jpeg", ".png", ".gif", ".svg", ".webp", ".html", ".htm", ".css", ".js",
     ".woff", ".woff2", ".ttf", ".eot", ".mp4", ".webm", ".mp3", ".wav"}

BLOCKED_EXTENSIONS == {".php", ".asp", ".aspx", ".jsp", ".exe"}

MAX_FILE_SIZE == 50000000

\* the string a URL is: scheme ":" "//" netloc path, piece by piece
Cadena(url) ==
    (IF url.scheme # "" THEN <<url.scheme, ":">> ELSE <<>>)
    \o (IF url.netloc # "" THEN <<"/", "/", url.netloc>> ELSE <<>>)
    \o url.path

\* len() of a string given by its pieces
RECURSIVE Longitud(_)
Longitud(s) == IF s = <<>> THEN 0 ELSE Len(Head(s)) + Longitud(Tail(s))

\* utils.validar_url, lines 31-38.  Line 36 looks every character of the URL
\* up in SecurityConfig.INVALID_CHARS, which holds ":" and "/".
validar_url_utils(url) ==
    /\ url.scheme \in VALID_SCHEMES
    /\ url.netloc # ""
    /\ ~ \E k \in 1..Len(Cadena(url)) : Cadena(url)[k] \in INVALID_CHARS
    /\ Longitud(Cadena(url)) <= 2048

\* The class of line 54 is built by pasting INVALID_CHARS between brackets:
\* [<>:"/\|?*].  Inside a class the backslash escapes the bar that follows
\* it, so the class holds the bar and not the backslash.
ClaseSanitizar == INVALID_CHARS \ {"\\"}

\* os.path.splitext on a name without separators: <<base, ext>>
UltimoPunto(s) ==
    LET puntos == {k \in 1..Len(s) : s[k] = "."} IN
    IF puntos = {} THEN 0 ELSE CHOOSE k \in puntos : \A m \in puntos : m <= k

splitext(s) ==
    LET d == UltimoPunto(s) IN
    IF d > 0 /\ \E k \in 1..(d - 1) : s[k] # "."
    THEN <<SubSeq(s, 1, d - 1), SubSeq(s, d, Len(s))>>
    ELSE <<s, <<>> >>

\* str.strip('._')
RECURSIVE strip_izquierda(_)
strip_izquierda(s) ==
    IF s # <<>> /\ s[1] \in {".", "_"} THEN strip_izquierda(Tail(s)) ELSE s

RECURSIVE strip_derecha(_)
strip_derecha(s) ==
    IF s # <<>> /\ s[Len(s)] \in {".", "_"}
    THEN strip_derecha(SubSeq(s, 1, Len(s) - 1)) ELSE s

\* base[:n]
Cortar(s, n) == SubSeq(s, 1, IF n < 0 THEN IF Len(s) + n > 0 THEN Len(s) + n ELSE 0
                             ELSE IF n < Len(s) THEN n ELSE Len(s))

\* lines 53-61
sanitizar_nombre_archivo(nombre) ==
    LET nombre_limpio == [k \in 1..Len(nombre) |->
                             IF nombre[k] \in ClaseSanitizar THEN "_" ELSE nombre[k]]
        partes == splitext(nombre_limpio)
        recortado == IF Len(nombre_limpio) > 255
                     THEN Cortar(partes[1], 255 - Len(partes[2])) \o partes[2]
                     ELSE nombre_limpio IN
    strip_derecha(strip_izquierda(recortado))

\* str.lower() on the extensions the inputs carry
Minusculas(ext) ==
    CASE ext = ".PHP" -> ".php"
      [] ext = ".JPG" -> ".jpg"
      [] OTHER -> ext

\* the last piece of a URL path when it is an extension
Extensiones == SUPPORTED_EXTENSIONS \cup BLOCKED_EXTENSIONS \cup {".PHP", ".JPG", ".zip", ".txt"}

ExtensionDe(path) == IF path # <<>> /\ path[Len(path)] \in Extensiones THEN path[Len(path)] ELSE ""

\* lines 73-84; the extension returned is a string of one piece
obtener_extension_segura(url) ==
    LET ext == Minusculas(ExtensionDe(url.path)) IN
    IF ext \in BLOCKED_EXTENSIONS THEN None
    ELSE IF ext \in SUPPORTED_EXTENSIONS THEN <<ext>>
    ELSE None

\* lines 156-161
es_archivo_seguro(nombre, tamano) ==
    /\ obtener_extension_segura(nombre) # None
    /\ tamano <= MAX_FILE_SIZE
    /\ ~ \E k \in 1..Len(Cadena(nombre)) : Cadena(nombre)[k] \in INVALID_CHARS

\* ---------------------------------------- the functions called on their own
Alfabeto == {"a", ".", "_", "<", "\\", "/"}

\* the names of tests/test_scraper.py, lines 197-202
NombrePhp == <<"a", "r", "c", "h", "i", "v", "o", "<", ">", ":", ".", "p", "h", "p">>
NombreTraversal ==
    <<".", ".", "/", ".", ".", "/", ".", ".", "/",
      "m", "a", "l", "i", "c", "i", "o", "s", "o", ".", "j", "s">>
NombreBarras ==
    <<"r", "u", "t", "a", "\\", "i", "n", "v", "a", "l", "i", "d", "a", "\\",
      "a", "r", "c", "h", "i", "v", "o", ".", "c", "s", "s">>
NombreEspacios == <<" ", "e", "s", "p", "a", "c", "i", "o", "s", " ", " ", ".", "t", "x", "t">>
NombreLargo == [k \in 1..256 |-> "x"] \o <<".", "t", "x", "t">>

Nombres ==
    UNION {[1..n -> Alfabeto] : n \in 0..MaxNombre}
    \cup {NombrePhp, NombreTraversal, NombreBarras, NombreEspacios, NombreLargo}

UrlsValidar ==
    {Url(s, n, p) : s \in {"http", "https", "ftp", "javascript", "file", "datos", ""},
                    n \in {"", Dominio},
                    p \in {<<>>, <<"/", "pagina">>, <<"/", "<", "script", ">">>}}

UrlsExtension ==
    {Url("https", Dominio, <<"/", "f", e>>) : e \in Extensiones} \cup {UrlRaiz, UrlA}

Tamanos == {0, MAX_FILE_SIZE, MAX_FILE_SIZE + 1, 100 * 1024 * 1024}

\* one call, its argument and what it returned
Llamada(f, arg, res) == [f |-> f, arg |-> arg, res |-> res]

u_validar_url_utils(url) ==
    /\ unidad' = Llamada("utils.validar_url", url, validar_url_utils(url))
    /\ UNCHANGED <<scraperVars, appVars, paginaVars>>

u_validar_url(url) ==
    /\ unidad' = Llamada("WebScraper.validar_url", url, validar_url(url))
    /\ UNCHANGED <<scraperVars, appVars, paginaVars>>

u_sanitizar_nombre_archivo(nombre) ==
    /\ unidad' = Llamada("sanitizar_nombre_archivo", nombre, sanitizar_nombre_archivo(nombre))
    /\ UNCHANGED <<scraperVars, appVars, paginaVars>>

u_obtener_extension_segura(url) ==
    /\ unidad' = Llamada("obtener_extension_segura", url, obtener_extension_segura(url))
    /\ UNCHANGED <<scraperVars, appVars, paginaVars>>

u_es_archivo_seguro(nombre, tamano) ==
    /\ unidad' = Llamada("es_archivo_seguro", <<nombre, tamano>>, es_archivo_seguro(nombre, tamano))
    /\ UNCHANGED <<scraperVars, appVars, paginaVars>>

NextPuras ==
    \/ \E url \in UrlsValidar : u_validar_url_utils(url)
    \/ \E url \in UrlsValidar : u_validar_url(url)
    \/ \E nombre \in Nombres : u_sanitizar_nombre_archivo(nombre)
    \/ \E url \in UrlsExtension : u_obtener_extension_segura(url)
    \/ \E url \in UrlsExtension, tamano \in Tamanos : u_es_archivo_seguro(url, tamano)

SpecPuras == InitSeq /\ [][NextPuras]_vars

\* ------------------------------------------------------------------ claims
\* C1: each page URL is fetched by procesar_pagina at most once
C1_VisitaUnica ==
    \A x \in DOMAIN peticiones : x.por = "procesar_pagina" => peticiones[x] <= 1

\* C2: descargar_pagina returns only when cola_urls is empty and no
\* procesar_pagina job is pending or in flight
C2_ColaDrenada ==
    dpc = "retornado" =>
        /\ cola_urls = <<>>
        /\ \A k \in 1..Len(futures) : futures[k].pc = "hecho"

\* C3: every job on cola_urls or being processed has 0 <= nivel <= max_profundidad
C3_CotaProfundidad ==
    /\ \A q \in 1..Len(cola_urls) :
          0 <= cola_urls[q].nivel /\ cola_urls[q].nivel <= config.max_profundidad
    /\ \A k \in 1..Len(futures) :
          0 <= futures[k].nivel /\ futures[k].nivel <= config.max_profundidad

\* a page of the deepest level that carries links has been processed to its
\* end, and a job of that level was created by a worker
C3_Testigo ==
    \E k \in 1..Len(futures) :
        /\ futures[k].nivel = config.max_profundidad
        /\ futures[k].pc = "hecho"
        /\ futures[k].soup.a # <<>>

\* C4: a URL whose host differs from the host of the seed (or that has no host) is never
\* requested from the network and never put on cola_urls
C4_SoloDominio ==
    /\ \A q \in 1..Len(cola_urls) :
          cola_urls[q].url = base_url \/ cola_urls[q].url.netloc = domain
    /\ \A x \in DOMAIN peticiones : x.url = base_url \/ x.url.netloc = domain

\* C5: at most one completed write to disk for any source URL
C5_EscrituraUnica ==
    \A u \in DOMAIN escrituras : escrituras[u] <= 1

\* the first direct call of descargar_recurso for its URL, and a later one
ParDirecto(i, j) ==
    /\ i < j
    /\ futures[i].directa /\ futures[j].directa
    /\ futures[i].url = futures[j].url
    /\ \A h \in 1..(i - 1) : futures[h].url # futures[i].url
    /\ futures[j].pc = "hecho"

\* the first call of get_resource for its URL, and a later one that reads the
\* clock (line 57) within the expiry window
ParCache(i, j) ==
    /\ i < j
    /\ rm_llamadas[i].url = rm_llamadas[j].url
    /\ \A h \in 1..(i - 1) : rm_llamadas[h].url # rm_llamadas[i].url
    /\ rm_llamadas[j].pc = "hecho"
    /\ rm_llamadas[j].t_consulta - rm_llamadas[i].t_consulta < CACHE_EXPIRY

\* C6 as stated: two sequential requests for the same URL within the expiry
\* window issue exactly one network GET, the second request none
C6_UnaPeticion ==
    /\ \A i, j \in 1..Len(futures) :
          ParDirecto(i, j) => futures[i].gets = 1 /\ futures[j].gets = 0
    /\ \A i, j \in 1..Len(rm_llamadas) :
          ParCache(i, j) => rm_llamadas[i].gets = 1 /\ rm_llamadas[j].gets = 0

\* C6 as amended: when the first of two sequential requests for the same URL
\* succeeded, the two issue exactly one network GET, the second request none
C6_UnaPeticionTrasExito ==
    /\ \A i, j \in 1..Len(futures) :
          (ParDirecto(i, j) /\ futures[i].ret # None)
              => futures[i].gets = 1 /\ futures[j].gets = 0
    /\ \A i, j \in 1..Len(rm_llamadas) :
          (ParCache(i, j) /\ rm_llamadas[i].ret # None)
              => rm_llamadas[i].gets = 1 /\ rm_llamadas[j].gets = 0

\* both kinds of request were made twice for a URL that downloads, the second
\* get_resource inside the expiry window but after time has advanced
C6_Testigo ==
    /\ \E i, j \in 1..Len(futures) : ParDirecto(i, j) /\ futures[i].ret # None
    /\ \E i, j \in 1..Len(rm_llamadas) :
          /\ ParCache(i, j) /\ rm_llamadas[i].ret # None
          /\ rm_llamadas[j].t_consulta > rm_llamadas[i].t_consulta

\* C7: when the fetch of the seed page fails, descargar_pagina does not
\* report success
C7_RaizFatal ==
    (dpc = "retornado" /\ TieneAdaptador(base_url) /\ Web(base_url).status # 200)
        => retorno = "False"

\* C8: with an invalid seed URL nothing is enqueued, dispatched or requested,
\* and the run reports failure
C8_SemillaInvalida ==
    ~validar_url(base_url) =>
        /\ cola_urls = <<>>
        /\ futures = <<>>
        /\ peticiones = <<>>
        /\ dpc = "retornado" => retorno = "False"

\* the step in which descargar_recurso, the GET of the resource of frame k
\* having failed, runs its except branch and returns
FallaRecurso(k) ==
    /\ futures[k].pc = "r_err_in"
    /\ ~RespuestaOk(urljoin(base_url, RecursoActual(futures[k])))
    /\ futures'[k] # futures[k]

\* C9: a failed resource fetch returns None, adds exactly 1 to errores, leaves
\* archivos_descargados and archivos_procesados alone, the page goes on with
\* its next resource, and the run reports success
C9_FalloAbsorbido ==
    /\ [][\A k \in 1..Len(futures) :
            FallaRecurso(k) =>
                /\ estadisticas'.errores = estadisticas.errores + 1
                /\ estadisticas'.archivos_procesados = estadisticas.archivos_procesados
                /\ archivos_descargados' = archivos_descargados
                /\ futures'[k].ret = None
                /\ futures'[k].i = futures[k].i + 1
                /\ futures'[k].pc \in {"r_check", "p_save"}]_vars
    /\ [](dpc = "retornado" /\ RespuestaOk(base_url) => retorno = "True")

\* the run on the page whose first image answers 404 has returned: one error,
\* the 404 reference not recorded, the image after it downloaded
C9_Testigo ==
    /\ base_url = UrlC
    /\ dpc = "retornado"
    /\ retorno = "True"
    /\ estadisticas.errores = 1
    /\ Ref404 \notin archivos_descargados
    /\ RefImagen \in archivos_descargados

\* C10: after a run on the seed page with one in-domain image (both answer
\* 200) archivos_procesados = 2, errores = 0, index.html and imagen.jpg exist
C10_EscenarioA ==
    (base_url = UrlRaiz /\ dpc = "retornado") =>
        /\ estadisticas.archivos_procesados = 2
        /\ estadisticas.errores = 0
        /\ IndexHtml \in disco
        /\ <<"imagen", ".jpg">> \in disco

C12_Reescritura ==
    \A k \in 1..Len(futures) :
        LET f == futures[k]
            ruta == obtener_ruta_relativa(f.url, f.nivel) IN
        (f.pc \in {"p_links", "p_test", "p_put", "hecho"} /\ f.soup # NoSoup /\ ruta # None) =>
            \A i \in 1..Len(Recursos(f.soup)) :
                LET ref == Recursos(f.soup)[i]
                    local == obtener_ruta_relativa(ref, f.nivel)
                    guardado == Recursos(contenido[ruta])[i] IN
                IF local # None /\ RespuestaOk(urljoin(base_url, ref))
                THEN guardado = Local(local)
                ELSE guardado = ref

\* C13: directory structure.  A resource of a page of depth 0 whose URL path
\* is /d/f.ext and whose download succeeded is on disk at d/f.ext: the
\* separators between the segments are kept.
C13_EstructuraDirectorios ==
    \A k \in 1..Len(futures) :
        LET f == futures[k] IN
        (f.nivel = 0 /\ ~f.directa /\ f.soup # NoSoup) =>
            \A i \in 1..Len(Recursos(f.soup)) :
                LET ref == Recursos(f.soup)[i]
                    destino == urljoin(base_url, ref)
                    esperada == lstrip(destino.path) IN
                (/\ i < f.i
                 /\ ref \in archivos_descargados
                 /\ destino.netloc = domain
                 /\ NumPartes(esperada) > 1
                 /\ \A n \in 1..Len(esperada) : esperada[n] = "/" \/ esperada[n] \notin INVALID_CHARS)
                => esperada \in disco

\* the characters a shell or a markup parser gives a meaning to
CaracteresEspeciales == (CaracteresProhibidos \cup INVALID_CHARS) \ {":", "/"}

UrlBienFormada(url) ==
    /\ url.scheme \in {"http", "https"}
    /\ url.netloc # ""
    /\ \A k \in 1..Len(url.path) : url.path[k] \notin CaracteresEspeciales

\* C14: validar_url answers True for every URL with scheme http or https, a
\* host and no special character, and False for every URL of another scheme
\* or without a host.
C14_ValidarUrl ==
    unidad.f \in {"utils.validar_url", "WebScraper.validar_url"} =>
        /\ UrlBienFormada(unidad.arg) => unidad.res = TRUE
        /\ (unidad.arg.scheme \notin {"http", "https"} \/ unidad.arg.netloc = "") =>
               unidad.res = FALSE

\* C15: the sanitized name holds none of the nine characters < > : " / \ | ? *,
\* neither begins nor ends with "." or "_", and the names of the tests come
\* out as "malicioso.js" and "ruta_invalida_archivo.css".
C15_Sanitizacion ==
    unidad.f = "sanitizar_nombre_archivo" =>
        /\ \A k \in 1..Len(unidad.res) : unidad.res[k] \notin INVALID_CHARS
        /\ unidad.res # <<>> =>
               unidad.res[1] \notin {".", "_"} /\ unidad.res[Len(unidad.res)] \notin {".", "_"}
        /\ unidad.arg = NombreTraversal =>
               unidad.res = <<"m", "a", "l", "i", "c", "i", "o", "s", "o", ".", "j", "s">>
        /\ unidad.arg = NombreBarras =>
               unidad.res = <<"r", "u", "t", "a", "_", "i", "n", "v", "a", "l", "i", "d", "a", "_",
                              "a", "r", "c", "h", "i", "v", "o", ".", "c", "s", "s">>

\* C16: Scenario D.  "archivo<>:.php" is sanitized to "archivo__.php".
C16_EscenarioD ==
    (unidad.f = "sanitizar_nombre_archivo" /\ unidad.arg = NombrePhp) =>
        unidad.res = <<"a", "r", "c", "h", "i", "v", "o", "_", "_", ".", "p", "h", "p">>

\* a direct call that has returned, for a URL the server answers with 200
LlamadaServida(k) ==
    /\ futures[k].directa
    /\ futures[k].pc = "hecho"
    /\ RespuestaOk(urljoin(base_url, futures[k].url))

\* C17: Scenario E.  A resource whose body is larger than MAX_FILE_SIZE is
\* rejected: nothing of it is written, the call yields no path, an error is
\* counted, and the resource is neither counted as processed nor recorded as
\* downloaded.
C17_LimiteTamano ==
    \A k \in 1..Len(futures) :
        (LlamadaServida(k) /\ Web(urljoin(base_url, futures[k].url)).len > MAX_FILE_SIZE) =>
            /\ futures[k].ret = None
            /\ futures[k].url \notin DOMAIN escrituras
            /\ futures[k].url \notin archivos_descargados
            /\ estadisticas.errores >= 1
            /\ Len(futures) = 1 => estadisticas.archivos_procesados = 0

\* C18: descargar_recurso on a URL with a blocked extension that answers 200
\* yields None, writes nothing and counts an error; the first call on a URL
\* with a supported extension that answers 200 yields a local path.
C18_ExtensionesBloqueadas ==
    \A k \in 1..Len(futures) :
        LET ext == Minusculas(ExtensionDe(futures[k].url.path)) IN
        LlamadaServida(k) =>
            /\ ext \in BLOCKED_EXTENSIONS =>
                   /\ futures[k].ret = None
                   /\ futures[k].url \notin DOMAIN escrituras
                   /\ estadisticas.errores >= 1
            /\ (/\ ext \in SUPPORTED_EXTENSIONS
                /\ \A j \in 1..(k - 1) : futures[j].url # futures[k].url) =>
                   futures[k].ret # None

\* the tasks of app.py whose download succeeded, and those whose download
\* was attempted and failed
Exitos == {k \in 1..Len(app_futures) : app_futures[k].pc = "hecho" /\ app_futures[k].ret # None}

Fallos ==
    {k \in 1..Len(app_futures) :
        /\ app_futures[k].pc = "hecho"
        /\ app_futures[k].rm # 0
        /\ app_futures[k].ret = None}

RECURSIVE BytesEscritos(_)
BytesEscritos(k) ==
    IF k = 0 THEN 0
    ELSE BytesEscritos(k - 1)
         + (IF k \in Exitos THEN Web(rm_llamadas[app_futures[k].rm].url).len ELSE 0)

\* C19: no lost counter updates.  Once every worker has finished and the
\* run has returned, archivos_procesados is the number of downloads that
\* succeeded, errores the number of downloads and pages that failed, and
\* bytes_descargados the number of body bytes written.
C19_SinPerdidas ==
    app_pc = "retornado" =>
        /\ estadisticas.archivos_procesados = Cardinality(Exitos)
        /\ estadisticas.errores = Cardinality(Fallos) + (IF retorno = "False" THEN 1 ELSE 0)
        /\ estadisticas.bytes_descargados = BytesEscritos(Len(app_futures))

\* C20: snapshot freshness.  Whenever the clock has moved past inicio, the
\* snapshot obtener_estadisticas returns reports tiempo_total > 0, whether
\* or not descargar_pagina has completed.
C20_InstantaneaFresca ==
    reloj > estadisticas.inicio => obtener_estadisticas.tiempo_total > 0

\* ------------------------------------------------------------------- C21
\* the url argument of the last descargar_recurso call that returned to the frame
UltimoRecurso(f) == IF f.directa THEN f.url ELSE Recursos(f.soup)[f.i - 1]

Hoja(p) == SubSeq(p, UltimaBarra(p) + 1, Len(p))

\* C22: index-file mapping.  A page whose URL path is empty or "/" is saved
\* as index.html (under the prefix of its depth), and the path
\* descargar_recurso returns for a resource whose URL names a file keeps that
\* file name as its leaf: no index.html is appended to a resource.
C22_HojaDelRecurso ==
    \A k \in 1..Len(futures) :
        LET f == futures[k] IN
        /\ (f.pc \in {"p_links", "p_test", "p_put"} /\ f.url.path \in {<<>>, <<"/">>})
              => ConNivel(IndexHtml, f.nivel) \in disco
        /\ f.ret # None
              => LET p == urljoin(base_url, UltimoRecurso(f)).path IN
                 (p # <<>> /\ p[Len(p)] # "/") => Hoja(f.ret) = Hoja(p)

\* ------------------------------------------------------------------- C23
\* the local path the level-prefix rule gives url at depth nivel
RutaConPrefijo(url, nivel) ==
    IF nivel > 0 /\ config.mantener_estructura
    THEN <<"nivel_" \o ToString(nivel), "/">> \o obtener_ruta_relativa(url, 0)
    ELSE obtener_ruta_relativa(url, 0)

\* C23: level prefix.  The path of a page saved at depth d, and the path
\* descargar_recurso returns for a resource of a page of depth d, lies under
\* the directory of depth d exactly when d > 0 and mantener_estructura is
\* set; otherwise it carries no prefix.
C23_PrefijoDeNivel ==
    \A k \in 1..Len(futures) :
        LET f == futures[k] IN
        /\ f.pc \in {"p_links", "p_test", "p_put"} => RutaConPrefijo(f.url, f.nivel) \in disco
        /\ f.ret # None => f.ret = RutaConPrefijo(UltimoRecurso(f), f.nivel)

\* ------------------------------------------------------------------- C24
\* the task has written its page to disk
Guardada(f) == f.soup # NoSoup /\ f.pc \in {"p_links", "p_test", "p_put", "hecho"}

\* C24: stable URL-to-path mapping within a run.  Two resolutions of the same
\* source URL during one run give the same local path: two calls
\* descargar_recurso that returned a path for the same URL returned the same
\* one, and two tasks that saved the same page saved it to the same file,
\* whatever the depth of the page each belongs to.
C24_RutaEstable ==
    \A k1, k2 \in 1..Len(futures) :
        LET f1 == futures[k1]
            f2 == futures[k2] IN
        /\ (f1.ret # None /\ f2.ret # None /\ UltimoRecurso(f1) = UltimoRecurso(f2))
              => f1.ret = f2.ret
        /\ (Guardada(f1) /\ Guardada(f2) /\ f1.url = f2.url)
              => obtener_ruta_relativa(f1.url, f1.nivel) = obtener_ruta_relativa(f2.url, f2.nivel)

\* ------------------------------------------------------------------- C25
Rango(s) == {s[n] : n \in 1..Len(s)}

\* descargar_recurso was called for the reference: it sent a GET for it, or
\* found it downloaded already
Despachada(ref) ==
    \/ Veces(peticiones, Get("descargar_recurso", urljoin(base_url, ref))) >= 1
    \/ ref \in archivos_descargados

EnDominio(ref) == urljoin(base_url, ref).netloc = domain

\* C25: config gating of resource categories.  With incluir_imagenes off no
\* img or video reference of a page is requested, with incluir_css off no
\* stylesheet, with incluir_js off no script; and once a page is saved every
\* in-domain reference of each enabled category has been dispatched to
\* descargar_recurso.
C25_CategoriasPorConfiguracion ==
    \A k \in 1..Len(futures) :
        LET f == futures[k] IN
        /\ ~config.incluir_imagenes =>
              \A ref \in Rango(f.soup.img \o f.soup.video) :
                  Veces(peticiones, Get("descargar_recurso", urljoin(base_url, ref))) = 0
        /\ ~config.incluir_css =>
              \A ref \in Rango(f.soup.link) :
                  Veces(peticiones, Get("descargar_recurso", urljoin(base_url, ref))) = 0
        /\ ~config.incluir_js =>
              \A ref \in Rango(f.soup.script) :
                  Veces(peticiones, Get("descargar_recurso", urljoin(base_url, ref))) = 0
        /\ Guardada(f) =>
              /\ config.incluir_imagenes =>
                    \A ref \in Rango(f.soup.img \o f.soup.video) : EnDominio(ref) => Despachada(ref)
              /\ config.incluir_css =>
                    \A ref \in Rango(f.soup.link) : EnDominio(ref) => Despachada(ref)
              /\ config.incluir_js =>
                    \A ref \in Rango(f.soup.script) : EnDominio(ref) => Despachada(ref)

\* ------------------------------------------------------------------- C26
\* C26: stylesheet selection.  The href of a link element whose rel is not
\* stylesheet is never fetched (no get_resource call, no descargar_recurso
\* request) and the attribute is never rewritten to a local path.
C26_SoloHojasDeEstilo ==
    /\ \A ref \in Rango(Web(base_url).otros) :
          \A k \in 1..Len(rm_llamadas) : rm_llamadas[k].url # urljoin(base_url, ref)
    /\ \A n \in 1..Len(app_soup) :
          LET original == Elementos(Web(base_url))[n] IN
          (original.tag = "link" /\ original.valor \in Rango(Web(base_url).otros))
              => app_soup[n].valor = original.valor
    /\ \A k \in 1..Len(futures) :
          \A ref \in Rango(futures[k].soup.otros) :
              Veces(peticiones, Get("descargar_recurso", urljoin(base_url, ref))) = 0

\* ------------------------------------------------------------------- C27
\* the step puts a job on cola_urls from the task k: the task is of a page
\* of depth d < max_profundidad that has been fetched and parsed, the job
\* carries depth d + 1, and its target is a link of that page
CreadoPor(job, k) ==
    LET f == futures[k] IN
    /\ f.soup # NoSoup
    /\ f.nivel < config.max_profundidad
    /\ job.nivel = f.nivel + 1
    /\ job.url \in {urljoin(base_url, href) : href \in Rango(f.soup.a)}

\* C27: link-job creation and ordering.  Every step that puts a job other
\* than the seed on cola_urls is taken by a worker whose page, of depth
\* d < max_profundidad, has been fetched and parsed; the job carries depth
\* d + 1, and its target is in the domain of the seed and not in
\* urls_procesadas when the job is put.
C27_CreacionDeTrabajos ==
    [][(dpc # "inicio" /\ Len(cola_urls') > Len(cola_urls)) =>
          LET job == cola_urls'[Len(cola_urls')] IN
          /\ \E k \in 1..Len(futures) : futures[k].pc = "p_put" /\ CreadoPor(job, k)
          /\ job.url.netloc = domain
          /\ job.url \notin urls_procesadas]_vars

\* ------------------------------------------------------------------- C28
\* the calls descargar_recurso that resolved to u and whose request has been
\* answered (they have returned, or they are in the except branch of line
\* 157): the direct ones, and those a page task made for its resources
LlamadasTerminadas(u) ==
    {<<k, 0>> : k \in {m \in 1..Len(futures) :
                          /\ futures[m].directa
                          /\ futures[m].pc \in {"hecho", "r_err", "r_err_in"}
                          /\ urljoin(base_url, futures[m].url) = u}}
    \cup UNION {{<<k, n>> : n \in {m \in 1..Len(Recursos(futures[k].soup)) :
                                      /\ \/ m < futures[k].i
                                         \/ m = futures[k].i /\ futures[k].pc \in {"r_err", "r_err_in"}
                                      /\ urljoin(base_url, Recursos(futures[k].soup)[m]) = u}} :
                k \in {m \in 1..Len(futures) : ~futures[m].directa}}

\* C28: no retry.  For a URL whose server answers with an error status, the
\* network sees exactly one GET per call that fetched it: one per finished
\* descargar_recurso call, one per finished get_resource call, one per page
\* task that requested it; and no call sends more than one GET.
C28_SinReintento ==
    /\ \A u \in {Url404, UrlRota} :
          /\ Veces(peticiones, Get("descargar_recurso", u)) = Cardinality(LlamadasTerminadas(u))
          /\ Veces(peticiones, Get("get_resource", u))
                = Cardinality({k \in 1..Len(rm_llamadas) :
                                  rm_llamadas[k].url = u /\ rm_llamadas[k].pc = "hecho"})
          /\ Veces(peticiones, Get("procesar_pagina", u))
                = Cardinality({k \in 1..Len(futures) :
                                  /\ ~futures[k].directa
                                  /\ futures[k].url = u
                                  /\ futures[k].pc \in {"hecho", "p_err", "p_err_in"}
                                  /\ futures[k].gets >= 1})
    /\ \A k \in 1..Len(futures) : futures[k].gets <= 1
    /\ \A k \in 1..Len(rm_llamadas) : rm_llamadas[k].gets <= 1

\* a direct descargar_recurso call and a get_resource call for the URL that
\* answers 404 have both failed and returned None
C28_Testigo ==
    /\ \E k \in 1..Len(futures) :
          /\ futures[k].directa /\ futures[k].url = Url404
          /\ futures[k].pc = "hecho" /\ futures[k].ret = None /\ futures[k].gets = 1
    /\ \E k \in 1..Len(rm_llamadas) :
          /\ rm_llamadas[k].url = Url404
          /\ rm_llamadas[k].pc = "hecho" /\ rm_llamadas[k].ret = None
    /\ estadisticas.errores >= 1

\* ------------------------------------------------------------------- C29
\* the cache holds an entry for the key of url that has not expired
EntradaFresca(url) ==
    /\ _get_cache_key(url) \in DOMAIN cache
    /\ reloj - cache[_get_cache_key(url)].timestamp < CACHE_EXPIRY

\* the GETs get_resource calls have sent for url
PeticionesCache(url) == Veces(peticiones, Get("get_resource", url))

\* C29: cache expiry.  A call get_resource(url) that looks the cache up returns
\* the cached payload, with no network call, exactly when an entry for the key
\* exists and now - timestamp < CACHE_EXPIRY; otherwise it goes on to one GET.
\* A failed GET leaves the cache unchanged and returns None.  After a
\* successful GET the store replaces the whole entry of the key, payload and
\* timestamp, leaves the other entries alone, and the payload is returned.
C29_CaducidadDeCache ==
    [][\A k \in 1..Len(rm_llamadas) :
          LET c == rm_llamadas[k]
              d == rm_llamadas'[k]
              cache_key == _get_cache_key(c.url) IN
          /\ (c.pc = "g_lookup_in" /\ d.pc # c.pc) =>
                IF EntradaFresca(c.url)
                THEN /\ d.pc = "hecho"
                     /\ d.ret = cache[cache_key].data
                     /\ d.gets = 0
                     /\ peticiones' = peticiones
                     /\ cache' = cache
                ELSE d.pc = "g_get" /\ cache' = cache
          /\ (c.pc = "g_get" /\ d.pc # c.pc) =>
                /\ PeticionesCache(c.url)' = PeticionesCache(c.url) + 1
                /\ d.gets = 1
                /\ cache' = cache
                /\ IF RespuestaOk(c.url) THEN d.pc = "g_store"
                   ELSE d.pc = "hecho" /\ d.ret = None
          /\ (c.pc = "g_store_in" /\ d.pc # c.pc) =>
                /\ d.pc = "hecho"
                /\ d.ret = Cuerpo(c.url)
                /\ cache_key \in DOMAIN cache'
                /\ cache'[cache_key] = [data |-> d.ret, timestamp |-> reloj]
                /\ \A x \in DOMAIN cache : x # cache_key => cache'[x] = cache[x]
                /\ peticiones' = peticiones]_vars

\* a call found the entry of an earlier call expired, fetched the URL again
\* and replaced the entry; a later lookup at that time finds it fresh
C29_Testigo ==
    \E j, k \in 1..Len(rm_llamadas) :
        /\ j < k
        /\ rm_llamadas[j].url = rm_llamadas[k].url
        /\ rm_llamadas[j].pc = "hecho" /\ rm_llamadas[j].ret # None /\ rm_llamadas[j].gets = 1
        /\ rm_llamadas[k].pc = "hecho" /\ rm_llamadas[k].ret # None /\ rm_llamadas[k].gets = 1
        /\ rm_llamadas[k].t_consulta - rm_llamadas[j].t_consulta >= CACHE_EXPIRY
        /\ cache[_get_cache_key(rm_llamadas[k].url)].timestamp = rm_llamadas[k].t_consulta
        /\ EntradaFresca(rm_llamadas[k].url)

\* ------------------------------------------------------------------- C30
\* the call is inside one of the two with blocks of get_resource
EnBloque(c) == c.pc \in {"g_lookup_in", "g_store_in"}

\* C30: the cache race is benign.  Whatever the interleaving of the calls
\* get_resource of the tasks: no call sends more than one GET, so a URL is
\* requested at most once per call made for it; the lock is held by exactly
\* the call that is inside a with block, never by a call that is fetching;
\* the cache changes only in a step of the call that holds the lock, and that
\* step leaves the key with one whole entry, the payload and the time of
\* that writer; every entry of the cache is a whole one.
C30_CarreraBenigna ==
    [][/\ \A k \in 1..Len(rm_llamadas) :
             LET c == rm_llamadas[k] IN
             /\ c.gets <= 1
             /\ EnBloque(c) <=> _lock = k
             /\ c.pc = "g_get" => _lock # k
             /\ PeticionesCache(c.url)
                   <= Cardinality({m \in 1..Len(rm_llamadas) : rm_llamadas[m].url = c.url})
       /\ \A x \in DOMAIN cache :
             /\ DOMAIN cache[x] = {"data", "timestamp"}
             /\ cache[x].data # None
       /\ cache' # cache =>
             /\ _lock # 0
             /\ rm_llamadas[_lock].pc = "g_store_in"
             /\ LET escritor == rm_llamadas[_lock]
                    cache_key == _get_cache_key(escritor.url) IN
                /\ DOMAIN cache' = DOMAIN cache \cup {cache_key}
                /\ cache'[cache_key] = [data |-> escritor.data, timestamp |-> reloj]
                /\ \A x \in DOMAIN cache : x # cache_key => cache'[x] = cache[x]]_vars

\* two tasks called get_resource for the same URL while it was not cached:
\* both sent a GET, both stored, and the cache holds one entry for the key
C30_Testigo ==
    \E j, k \in 1..Len(rm_llamadas) :
        /\ j # k
        /\ rm_llamadas[j].url = rm_llamadas[k].url
        /\ rm_llamadas[j].pc = "hecho" /\ rm_llamadas[j].gets = 1 /\ rm_llamadas[j].ret # None
        /\ rm_llamadas[k].pc = "hecho" /\ rm_llamadas[k].gets = 1 /\ rm_llamadas[k].ret # None
        /\ rm_llamadas[j].t_consulta = rm_llamadas[k].t_consulta
        /\ PeticionesCache(rm_llamadas[k].url) = 2
        /\ cache[_get_cache_key(rm_llamadas[k].url)].data = rm_llamadas[k].ret
        /\ _lock = 0

\* ------------------------------------------------------------------- C31
\* C31: bounded worker pool.  At every moment the page jobs in flight (taken by
\* a pool thread and not yet finished) are at most MAX_WORKERS = 5, and so
\* are the element tasks in flight of app.py.
C31_PoolAcotado ==
    /\ Cardinality(Activos) <= MAX_WORKERS
    /\ Cardinality(AppActivos) <= MAX_WORKERS

\* the pool is full: five page jobs are in flight and a sixth, submitted,
\* waits for a thread
C31_Testigo ==
    /\ Cardinality(Activos) = MAX_WORKERS
    /\ \E k \in 1..Len(futures) : futures[k].pc = "pendiente"

\* ------------------------------------------------------------------- C32
\* C32: the visited set is monotone and guarded.  No step removes a URL from
\* urls_procesadas, and a step that changes it is taken by a frame that holds
\* self.lock, inside the block of line 185, and adds that frame's URL.
C32_VisitadasConCerrojo ==
    [][/\ urls_procesadas \subseteq urls_procesadas'
       /\ urls_procesadas' # urls_procesadas =>
             /\ lock \in 1..Len(futures)
             /\ futures[lock].pc = "p_add_in"
             /\ urls_procesadas' = urls_procesadas \cup {futures[lock].url}
             /\ lock' = 0]_vars

\* a second page is about to be added, by a frame that holds the lock
C32_Testigo ==
    /\ urls_procesadas # {}
    /\ lock \in 1..Len(futures)
    /\ futures[lock].pc = "p_add_in"
    /\ futures[lock].url \notin urls_procesadas

\* ------------------------------------------------------------------- C33
\* a page task of depth >= 1 has failed and has run its except branch
PaginaFallida(k) ==
    /\ ~futures[k].directa
    /\ futures[k].nivel >= 1
    /\ futures[k].pc = "hecho"
    /\ futures[k].soup = NoSoup
    /\ futures[k].gets >= 1

\* C33: the failure of a page that is not the root is absorbed.  The except
\* branch of such a page adds exactly 1 to errores, puts nothing on cola_urls
\* and ends the task; and when descargar_pagina returns after such a failure
\* it returns True, with every queued job dispatched and every task finished.
C33_FalloDePaginaAbsorbido ==
    /\ [][\A k \in 1..Len(futures) :
             (futures[k].pc = "p_err_in" /\ futures[k].nivel >= 1 /\ futures'[k] # futures[k]) =>
                 /\ estadisticas'.errores = estadisticas.errores + 1
                 /\ cola_urls' = cola_urls
                 /\ futures'[k].pc = "hecho"
                 /\ futures'[k].enlaces = <<>>]_vars
    /\ []((dpc = "retornado" /\ \E k \in 1..Len(futures) : PaginaFallida(k)) =>
             /\ retorno = "True"
             /\ cola_urls = <<>>
             /\ \A k \in 1..Len(futures) : futures[k].pc = "hecho")

\* ------------------------------------------------------------------- C34
\* C34: the progress fraction is well defined.  Every turn of the loop of
\* descargar_pagina reports one value to the bar it was given, also when the
\* job is skipped as already visited; the value is total_procesado /
\* (total_procesado + qsize()) as they are after the dequeue (in app.py the
\* elements submitted over submitted plus remaining); its denominator is not
\* zero and it lies in (0, 1].
C34_ProgresoBienDefinido ==
    /\ [][progress_bar.dada =>
             /\ total_procesado' # total_procesado =>
                   /\ progress_bar'.veces = progress_bar.veces + 1
                   /\ progress_bar'.num * (total_procesado' + Len(cola_urls'))
                         = total_procesado' * progress_bar'.den
             /\ app_futures' # app_futures /\ Len(app_futures') > Len(app_futures) =>
                   /\ progress_bar'.veces = progress_bar.veces + 1
                   /\ progress_bar'.num * Len(app_soup) = Len(app_futures') * progress_bar'.den
             /\ progress_bar' # progress_bar =>
                   \/ total_procesado' = total_procesado + 1
                   \/ Len(app_futures') = Len(app_futures) + 1]_vars
    /\ []((progress_bar.dada /\ progress_bar.veces >= 1) =>
             /\ progress_bar.den > 0
             /\ 0 < progress_bar.num
             /\ progress_bar.num <= progress_bar.den)
    /\ [](dpc # "excepcion")

\* the bar has been given a value for each of at least two jobs, one of them a
\* job skipped as already visited, and the last value is below 1
C34_Testigo ==
    /\ progress_bar.dada
    /\ progress_bar.veces >= 2
    /\ progress_bar.veces = total_procesado
    /\ total_procesado > Len(futures)
    /\ progress_bar.num < progress_bar.den

\* ------------------------------------------------------------------- C35
\* the body of url is whole in the file of url at some depth
EscritoCompleto(url) ==
    \E nivel \in 0..config.max_profundidad :
        /\ obtener_ruta_relativa(url, nivel) \in disco
        /\ contenido[obtener_ruta_relativa(url, nivel)] = Cuerpo(urljoin(base_url, url))

\* C35: archivos_descargados is consistent.  In every reachable state each URL
\* of archivos_descargados has its body completely written to its local path,
\* and archivos_procesados is the number of URLs in archivos_descargados.
C35_DescargadosConsistentes ==
    /\ \A url \in archivos_descargados : EscritoCompleto(url)
    /\ estadisticas.archivos_procesados = Cardinality(archivos_descargados)

\* ------------------------------------------------------------------- C36
\* C36: the run terminates.  Under a scheduler that starves no thread, every
\* execution of descargar_pagina eventually returns: the loop of line 235 and
\* the wait of line 249 do not run or block forever.
C36_Termina == <>(dpc = "retornado")

\* a crawl of several pages has returned
C36_Testigo ==
    /\ dpc = "retornado"
    /\ Len(futures) >= 3
    /\ Cardinality(urls_procesadas) >= 3
    /\ \E k \in 1..Len(futures) : futures[k].nivel = 2

\* ------------------------------------------------------------------- C37
\* the GETs procesar_pagina has sent for pages whose request fails
PeticionesFallidas ==
    {x \in DOMAIN peticiones : x.por = "procesar_pagina" /\ ~RespuestaOk(x.url)}

\* C37: claim before fetch.  A page is in urls_procesadas before its GET is
\* sent, so a page whose request fails is in the visited set and is counted in
\* paginas_procesadas, which is the size of urls_procesadas; and such a page is
\* requested once in the run, whatever links to it.
C37_MarcaAntesDePedir ==
    /\ \A x \in DOMAIN peticiones : x.por = "procesar_pagina" => x.url \in urls_procesadas
    /\ \A k \in 1..Len(futures) :
          (~futures[k].directa /\ futures[k].pc \in {"p_get", "p_err", "p_err_in"}) =>
              futures[k].url \in urls_procesadas
    /\ obtener_estadisticas.paginas_procesadas = Cardinality(urls_procesadas)
    /\ \A x \in PeticionesFallidas : peticiones[x] <= 1

\* ------------------------------------------------------------------- C38
\* the frame is inside a block "with self.lock:"
DentroDeLock(f) == f.pc \in {"p_add_in", "p_err_in", "r_bytes_in", "r_add_in", "r_err_in"}

\* C38: no deadlock on the locks.  self.lock is held by exactly the frame that
\* is inside a with block, and _lock by exactly the get_resource call that is
\* inside one, so the holder can always take its next step; a lock is taken
\* only when it is free, never by its holder; the next step of the holder
\* releases it, on the except branches as on the others; and the holder of a
\* lock sends no request and does no queue operation.
C38_SinBloqueoMutuo ==
    /\ [](/\ lock \in 0..Len(futures)
          /\ _lock \in 0..Len(rm_llamadas)
          /\ \A k \in 1..Len(futures) : DentroDeLock(futures[k]) <=> lock = k
          /\ \A k \in 1..Len(rm_llamadas) : EnBloque(rm_llamadas[k]) <=> _lock = k)
    /\ [][/\ \A k \in 1..Len(futures) :
             /\ (~DentroDeLock(futures[k]) /\ DentroDeLock(futures'[k])) =>
                    lock = 0 /\ lock' = k
             /\ (lock = k /\ futures'[k] # futures[k]) =>
                    /\ lock' = 0
                    /\ ~DentroDeLock(futures'[k])
                    /\ peticiones' = peticiones
                    /\ cola_urls' = cola_urls
          /\ \A k \in 1..Len(rm_llamadas) :
             /\ (~EnBloque(rm_llamadas[k]) /\ EnBloque(rm_llamadas'[k])) =>
                    _lock = 0 /\ _lock' = k
             /\ (_lock = k /\ rm_llamadas'[k] # rm_llamadas[k]) =>
                    /\ _lock' = 0
                    /\ ~EnBloque(rm_llamadas'[k])
                    /\ peticiones' = peticiones
                    /\ cola_urls' = cola_urls
          /\ (lock' # lock \/ _lock' # _lock) =>
                (futures' # futures \/ rm_llamadas' # rm_llamadas)]_vars

\* a task holds self.lock inside an except branch while another task waits
\* for the lock
C38_Testigo ==
    /\ lock \in 1..Len(futures)
    /\ futures[lock].pc \in {"p_err_in", "r_err_in"}
    /\ \E j \in 1..Len(futures) : j # lock /\ futures[j].pc \in EsperaLock

====
